---- MODULE Spec2Model ----
(***************************************************************************)
(* Model of tomdamelio/affective_ai_videos: the generator library          *)
(* (src/src/pain_stimuli/generator.py) and the command-line scripts that   *)
(* drive it (src/scripts/*.py).  One behaviour of the model is one run of  *)
(* one entry point: a library function called directly, or a script's      *)
(* main().  The remote provider (fal_client, HTTP) is the environment: a   *)
(* call is issued by the program (and logged in netLog), and its return    *)
(* or its exception is chosen by the environment.                          *)
(*                                                                         *)
(* Text is modelled as a sequence of one-character strings, so that        *)
(* formatting (f"{img_id}_v{n}") and input normalisation (strip, lower)    *)
(* are computed, not assumed.                                              *)
(***************************************************************************)
EXTENDS Integers, Sequences, FiniteSets, TLC

VARIABLES
    entry,          \* the entry point this run executes
    pc,             \* position of the single thread of control
    falKey,         \* os.environ.get("FAL_KEY") is a non-empty string
    present,        \* the referenced local files that exist
    items,          \* rows the spreadsheet loader returned: <<[id, seed]>>
    variants,       \* VARIANTS_PER_PROMPT, or args.variants
    config,         \* the config object of the current library call
    item,           \* 1-based index of the row the batch loop is at
    variant,        \* 0-based variant index of the batch loop
    imagen_actual,  \* attempts started so far
    resultados,     \* success records, in order
    errores,        \* failure records, in order
    success_count,  \* adapt_image / inpainting success counter
    stdout,         \* status lines the adapt_image / inpainting loops print
    netLog,         \* every network call issued so far, in order
    uploading,      \* which file an upload in flight is for
    urls,           \* urls returned by uploads: role -> url
    parentExists,   \* the parent directory of the download destination exists
    disk,           \* the files below it: a set of <<path, content>>
    calls,          \* calls of a download function made so far
    result,         \* <<>> or <<r>>: the result dict of the current call
    confirmacion,   \* the normalised answer to input(), Unanswered before it
    outcome,        \* "running", "returned", "raised", "exit0", "exit1"
    error,          \* message of the exception that ended the run, or ""
    tool            \* the MaskCreator object of create_mask.py, and the
                    \* mouse button held down over its canvas

\* what no action of the generation scripts and library functions changes
inputVars == <<entry, falKey, present, items, variants, tool>>
fsVars == <<calls, parentExists, disk>>
vars == <<entry, pc, falKey, present, items, variants, config, item, variant,
          imagen_actual, resultados, errores, success_count, stdout, netLog,
          uploading, urls, parentExists, disk, calls, result, confirmacion,
          outcome, error, tool>>

----------------------------------------------------------------------------
(* Bounds of the model. *)

\* num_images = num_prompts * VARIANTS_PER_PROMPT is explored up to this.
MaxImages == 4

\* args.variants of adapt_image / generate_neutral_inpainting, 0..MaxVariants.
MaxVariants == 2

\* a download function is called up to this many times in a row
MaxCalls == 2

\* the brush of the mask tool is grown up to this size
MaxBrush == 35

\* pointer events of the mask tool have canvas coordinates 0..MaxCoord
MaxCoord == 3

----------------------------------------------------------------------------
(* Text. *)

DigitChar(d) == CASE d = 0 -> "0" [] d = 1 -> "1" [] d = 2 -> "2" [] d = 3 -> "3"
                  [] d = 4 -> "4" [] d = 5 -> "5" [] d = 6 -> "6" [] d = 7 -> "7"
                  [] d = 8 -> "8" [] d = 9 -> "9"

RECURSIVE Decimal(_)
\* str(n) for a natural n, as f-string interpolation renders it.
Decimal(n) == IF n < 10 THEN <<DigitChar(n)>>
              ELSE Decimal(n \div 10) \o <<DigitChar(n % 10)>>

IsSpace(c) == c \in {" ", "\t", "\n"}

LowerChar(c) == CASE c = "Y" -> "y" [] c = "N" -> "n" [] c = "E" -> "e"
                  [] c = "S" -> "s" [] OTHER -> c

\* str.lower()
Lower(s) == [i \in 1..Len(s) |-> LowerChar(s[i])]

RECURSIVE LStrip(_)
LStrip(s) == IF s # <<>> /\ IsSpace(Head(s)) THEN LStrip(Tail(s)) ELSE s

RECURSIVE RStrip(_)
RStrip(s) == IF s # <<>> /\ IsSpace(s[Len(s)])
             THEN RStrip(SubSeq(s, 1, Len(s) - 1)) ELSE s

\* str.strip()
Strip(s) == RStrip(LStrip(s))

\* what the user may type at input()
Answers == { <<"y">>, <<"Y">>, <<" ", "y", " ">>, <<"n">>, <<>>,
             <<"y", "e", "s">>, <<" ">> }

\* confirmacion = input(...).strip().lower();  confirmacion != "y" cancels
Confirmed(ans) == Lower(Strip(ans)) = <<"y">>

----------------------------------------------------------------------------
(* Entry points. *)

SheetScripts == {"generate_start_img", "generate_ref_img"}
LoopScripts  == SheetScripts \cup {"adapt_image", "generate_neutral_inpainting"}
Scripts      == LoopScripts \cup {"generate_poc", "generate_pov_img",
                                  "generate_video_main", "create_mask"}
DownloadEntries == {"download_image", "download_video"}
LibEntries   == {"generate_pain_stimulus", "transform_image_perspective",
                 "get_account_usage", "generate_video", "find_3p_images"}
                  \cup DownloadEntries
Entries      == Scripts \cup LibEntries

\* scripts whose main() calls input()
PromptScripts == {"generate_poc", "generate_start_img", "generate_ref_img",
                  "generate_pov_img", "adapt_image",
                  "generate_neutral_inpainting"}

----------------------------------------------------------------------------
(* Program constants. *)

DEFAULT_SEED == 1001
NAN_SEED_FALLBACK == 1000
EXPECTED_NUM_PROMPTS == 5
EXPECTED_NUM_IMAGES == 5
VARIANTS_START == 3
VARIANTS_REF == 1
ADAPT_BASE_SEED == 3000
INPAINT_BASE_SEED == 4000

\* str(error) of the exceptions the code raises or lets through
MissingKeyMsg == "FAL_KEY no configurada"
NotFoundMsg   == "Imagen no encontrada"
ExcelMsg      == "Archivo Excel no encontrado"
DirMsg        == "Directorio no encontrado"
KeyErrorMsg   == "'images'"
IndexErrorMsg == "list index out of range"
AssertMsg     == "AssertionError"
NaNMsg        == "cannot convert float NaN to integer"
AttributeMsg  == "'GenerationConfig' object has no attribute 'enable_safety_checker'"
TypeErrorMsg  == "__init__() got an unexpected keyword argument 'strength'"
UnboundMsg    == "local variable 'result' referenced before assignment"
NoVideoMsg    == "La respuesta de la API no contiene 'video'."
OpenMsg       == "No such file or directory"
FileExistsMsg == "File exists"
\* raised by the collaborators (fal_client, requests)
TransportMsg  == "provider error"
HttpMsg       == "HTTP error"

----------------------------------------------------------------------------
(* The spreadsheet rows the loader returns. *)

S01 == <<"S", "0", "1">>
S02 == <<"S", "0", "2">>
S11 == <<"S", "1", "1">>
S13 == <<"S", "1", "3">>
S17 == <<"S", "1", "7">>

Cell(n) == [nan |-> FALSE, val |-> n]
NaN     == [nan |-> TRUE, val |-> 0]

Row(id, seed) == [id |-> id, seed |-> seed]

\* a clean sheet, and one with an empty Seed cell and a repeated identifier
SheetA == << Row(S01, Cell(100)), Row(S02, Cell(200)), Row(S11, Cell(300)),
             Row(S13, Cell(400)), Row(S17, Cell(500)) >>
SheetB == << Row(S02, NaN), Row(S02, Cell(1001)), Row(S11, Cell(300)),
             Row(S13, Cell(400)), Row(S17, Cell(500)) >>

PromptTables(n) == { SubSeq(SheetA, 1, n), SubSeq(SheetB, 1, n) }

\* base_seed = int(row["Seed"]), 1000 when that raises (generate_start_img)
BaseSeed(row) == IF row.seed.nan THEN NAN_SEED_FALLBACK ELSE row.seed.val

\* faulty variant: the suffix is the 0-based loop index
VariantId_ZeroBased(id, v) == id \o <<"_", "v">> \o Decimal(v)

\* variant_id = f"{img_id}_v{variant + 1}"
VariantId(id, v) == id \o <<"_", "v">> \o Decimal(v + 1)

\* output_dir / f"{variant_id}.jpg"
ImgPath(name) == <<"i", "m", "g", "/">> \o name \o <<".", "j", "p", "g">>

\* faulty variant: the variant number is left out of the name
VariantPath_NoSuffix(base, v) == base \o <<".", "j", "p", "g">>

\* base_output_path.with_name(f"{base_output_path.name}_v{variant_num}.jpg")
VariantPath(base, v) == base \o <<"_", "v">> \o Decimal(v + 1)
                             \o <<".", "j", "p", "g">>

AdaptBase   == <<"x", "_", "a", "d", "a", "p", "t", "e", "d">>
InpaintBase == <<"x", "_", "i", "n", "p", "a", "i", "n", "t", "e", "d">>

----------------------------------------------------------------------------
(* Config objects and provider responses. *)

GenConfig(seed) == [seed |-> seed, strength |-> "", model_id |-> "flux"]
I2IConfig(seed, strength) ==
    [seed |-> seed, strength |-> strength, model_id |-> "flux"]

\* config arguments of a direct library call; None becomes the default object
GenConfigs == { GenConfig(DEFAULT_SEED), GenConfig(42) }
I2IConfigs == { I2IConfig(DEFAULT_SEED, "0.1"), I2IConfig(42, "0.5") }

\* the prompt argument of a generation call, and a prompt the provider
\* may echo instead
RequestedPrompt == "p_requested"
ProviderPrompt  == "p_provider"

\* a non-empty "timings" mapping, as a set of (stage, duration) pairs
SomeTimings == { <<"inference", 2>> }

\* A terminal provider response: which result keys it has, the seed it
\* echoes (<<>> when it has no "seed" key), its "has_nsfw_concepts" list
\* ("absent", the empty list, or a list starting with false / true), and
\* its "timings" and "prompt" (<<>> when the key is absent).
\* A response without images[0] carries none of the optional keys.
Responses == { r \in [ images  : {"absent", "empty", "one"},
                       image   : BOOLEAN,
                       url     : BOOLEAN,
                       seed    : {<<>>, <<7>>},
                       nsfw    : {"absent", "empty", "false", "true"},
                       timings : {<<>>, <<SomeTimings>>},
                       prompt  : {<<>>, <<ProviderPrompt>>} ] :
                 r.images # "one" =>
                    /\ r.seed = <<>> /\ r.nsfw = "absent"
                    /\ r.timings = <<>> /\ r.prompt = <<>> }

\* the responses with none of has_nsfw_concepts, timings, prompt
PlainResponses ==
    { r \in Responses :
        r.nsfw = "absent" /\ r.timings = <<>> /\ r.prompt = <<>> }

\* The responses an entry point is run against.  The two library functions
\* get every response.  The scripts use only image_url and seed of the
\* result, so they get the plain ones, and the sheet scripts, whose runs are
\* the long ones, get a response with images without the other url keys.
ResponsesOf(e) ==
    IF e \in {"generate_pain_stimulus", "transform_image_perspective"}
    THEN Responses
    ELSE IF e \in {"generate_start_img", "generate_ref_img"}
    THEN { r \in PlainResponses : r.images = "one" => (~r.image /\ ~r.url) }
    ELSE PlainResponses

UploadUrls == {"up_a", "up_b"}

\* the exception building the returned dict raises, "" when it raises none:
\* result["images"][0]["url"] first, then
\* result.get("has_nsfw_concepts", [False])[0]
ShapeError(r) == CASE r.images = "absent" -> KeyErrorMsg
                   [] r.images = "empty"  -> IndexErrorMsg
                   [] r.nsfw = "empty"    -> IndexErrorMsg
                   [] OTHER               -> ""

\* faulty variant: a response without a seed gets the default seed
BuildResult_DefaultSeed(r, cfg) ==
    [ image_url         |-> "u_images0",
      seed              |-> IF r.seed = <<>> THEN DEFAULT_SEED ELSE r.seed[1],
      model_id          |-> cfg.model_id,
      prompt            |-> IF r.prompt = <<>> THEN RequestedPrompt
                            ELSE r.prompt[1],
      has_nsfw_concepts |-> r.nsfw = "true",
      timings           |-> IF r.timings = <<>> THEN {} ELSE r.timings[1],
      raw_response      |-> r ]

\* the dict generate_pain_stimulus / transform_image_perspective return
BuildResult(r, cfg) ==
    [ image_url         |-> "u_images0",
      seed              |-> IF r.seed = <<>> THEN cfg.seed ELSE r.seed[1],
      model_id          |-> cfg.model_id,
      prompt            |-> IF r.prompt = <<>> THEN RequestedPrompt
                            ELSE r.prompt[1],
      has_nsfw_concepts |-> r.nsfw = "true",
      timings           |-> IF r.timings = <<>> THEN {} ELSE r.timings[1],
      raw_response      |-> r ]

\* faulty variant: the bare url is preferred to image.url
ExtractUrl_PrefersBare(r) == IF r.images = "one" THEN "u_images0"
                             ELSE IF r.url THEN "u_bare"
                             ELSE IF r.image THEN "u_image"
                             ELSE ""

\* result_url of generate_neutral_inpainting; "" stands for None
ExtractUrl(r) == IF r.images = "one" THEN "u_images0"
                 ELSE IF r.image THEN "u_image"
                 ELSE IF r.url THEN "u_bare"
                 ELSE ""

----------------------------------------------------------------------------
(* Network calls, as logged: what was sent, and how the collaborator      *)
(* answered ("pending" while the call blocks, then "returned" or "raised";  *)
(* echo is the seed a returned submit carried, <<>> when it carried none).  *)

NetCall(op, file, url, dest, seed, image_url, mask_url, strength) ==
    [ op |-> op, file |-> file, url |-> url, dest |-> dest, seed |-> seed,
      image_url |-> image_url, mask_url |-> mask_url, strength |-> strength,
      reply |-> "pending", echo |-> <<>>, body |-> "" ]

UploadCall(file) == NetCall("upload", file, "", <<>>, -1, "", "", "")
SubmitCall(seed, image_url, mask_url, strength) ==
    NetCall("submit", "", "", <<>>, seed, image_url, mask_url, strength)
GetCall(url, dest) == NetCall("get", "", url, dest, -1, "", "", "")

\* the log once the call in flight (always the last one) has been answered
Answered(log, how, echo) ==
    [log EXCEPT ![Len(log)].reply = how, ![Len(log)].echo = echo]

\* the log once the download in flight got a 2xx answer with body b
AnsweredGet(log, b) ==
    [log EXCEPT ![Len(log)].reply = "returned", ![Len(log)].body = b]

\* the log once the upload in flight returned the url u
AnsweredUpload(log, u) ==
    [log EXCEPT ![Len(log)].reply = "returned", ![Len(log)].body = u]

\* response bodies
Bodies == {"b1", "b2"}

\* the bodies an entry point's downloads are answered with; one for the
\* sheet scripts, whose runs are the long ones
BodiesOf(e) ==
    IF e \in {"generate_start_img", "generate_ref_img", "get_account_usage"}
    THEN {"b1"} ELSE Bodies

\* the disk after open(path, "wb") and a full write of content b
Write(d, path, b) == {f \in d : f[1] # path} \cup {<<path, b>>}

\* the file contents found at a path
ContentAt(d, path) == {f[2] : f \in {g \in d : g[1] = path}}

\* faulty variant: mkdir without exist_ok
MkdirParents_Strict(exists) == IF exists THEN FileExistsMsg ELSE ""

\* the exception of output_path.parent.mkdir(parents=True, exist_ok=True),
\* "" as it raises none whether or not the directory exists
MkdirParents(exists) == ""

\* destination of a download function called directly
DownloadDest == <<"o", "u", "t", "/", "f">>

\* a status line of the adapt_image / inpainting loop body
Line(kind, msg, keys) == [kind |-> kind, msg |-> msg, keys |-> keys]

\* result.keys() of a provider response
Keys(r) == (IF r.images # "absent" THEN {"images"} ELSE {})
           \cup (IF r.image THEN {"image"} ELSE {})
           \cup (IF r.url THEN {"url"} ELSE {})
           \cup (IF r.seed # <<>> THEN {"seed"} ELSE {})
           \cup (IF r.nsfw # "absent" THEN {"has_nsfw_concepts"} ELSE {})
           \cup (IF r.timings # <<>> THEN {"timings"} ELSE {})
           \cup (IF r.prompt # <<>> THEN {"prompt"} ELSE {})

NoUrls == [image |-> "", mask |-> "", start |-> "", end |-> ""]
Unanswered == <<"?">>

----------------------------------------------------------------------------
(* The file names of generate_pov_img.py. *)

IsDigit(c) == c \in {"0", "1", "2", "3", "4", "5", "6", "7", "8", "9"}

\* ord(c), for the characters of the file names
Ord(c) == CASE c = "." -> 46 [] c = "/" -> 47
            [] c = "0" -> 48 [] c = "1" -> 49 [] c = "2" -> 50
            [] c = "3" -> 51 [] c = "4" -> 52 [] c = "5" -> 53
            [] c = "6" -> 54 [] c = "7" -> 55 [] c = "8" -> 56
            [] c = "9" -> 57 [] c = "E" -> 69 [] c = "P" -> 80
            [] c = "S" -> 83 [] c = "_" -> 95 [] c = "d" -> 100
            [] c = "g" -> 103 [] c = "i" -> 105 [] c = "j" -> 106
            [] c = "m" -> 109 [] c = "n" -> 110 [] c = "p" -> 112
            [] c = "v" -> 118

RECURSIVE StrLess(_, _)
\* a < b for two strings
StrLess(a, b) ==
    IF b = <<>> THEN FALSE
    ELSE IF a = <<>> THEN TRUE
    ELSE IF Head(a) # Head(b) THEN Ord(Head(a)) < Ord(Head(b))
    ELSE StrLess(Tail(a), Tail(b))

\* sorted(S) for a set of strings: the k-th is the one that has k - 1
\* smaller ones
Sorted(S) ==
    [k \in 1..Cardinality(S) |->
       CHOOSE x \in S : Cardinality({y \in S : StrLess(y, x)}) = k - 1]

\* s.endswith(suffix)
EndsWith(s, suffix) ==
    /\ Len(s) >= Len(suffix)
    /\ SubSeq(s, Len(s) - Len(suffix) + 1, Len(s)) = suffix

\* s[i:].startswith(prefix), i 1-based
StartsWithAt(s, i, prefix) ==
    /\ i + Len(prefix) - 1 <= Len(s)
    /\ SubSeq(s, i, i + Len(prefix) - 1) = prefix

\* img_dir.glob("*.jpg") yields the name
GlobJpg(name) == EndsWith(name, <<".", "j", "p", "g">>)

\* re.compile(INPUT_PATTERN).match(name), INPUT_PATTERN =
\* r"^S\d{2}_3P_EndP_v\d+\.jpg$"
MatchesInputPattern(name) ==
    /\ Len(name) >= 18
    /\ name[1] = "S" /\ IsDigit(name[2]) /\ IsDigit(name[3])
    /\ StartsWithAt(name, 4, <<"_", "3", "P", "_", "E", "n", "d", "P", "_", "v">>)
    /\ \A i \in 14..(Len(name) - 4) : IsDigit(name[i])
    /\ EndsWith(name, <<".", "j", "p", "g">>)

RECURSIVE Replace(_, _, _)
\* s.replace(old, new), old non-empty: every occurrence, left to right
Replace(s, old, new) ==
    IF s = <<>> THEN <<>>
    ELSE IF StartsWithAt(s, 1, old)
    THEN new \o Replace(SubSeq(s, Len(old) + 1, Len(s)), old, new)
    ELSE <<Head(s)>> \o Replace(Tail(s), old, new)

\* faulty variant: the two markers change places, and nothing is renamed
generate_1p_filename_Swapped(original_filename) ==
    Replace(original_filename, <<"_", "1", "P", "_">>, <<"_", "3", "P", "_">>)

\* generate_1p_filename: original_filename.replace("_3P_", "_1P_")
generate_1p_filename(original_filename) ==
    Replace(original_filename, <<"_", "3", "P", "_">>, <<"_", "1", "P", "_">>)

\* IMG_DIR / name
InImgDir(name) == <<"i", "m", "g", "/">> \o name

\* file names the image directory may hold
DirNames ==
    { <<"S", "0", "1", "_", "3", "P", "_", "E", "n", "d", "P", "_", "v", "1", ".", "j", "p", "g">>,
      <<"S", "0", "1", "_", "3", "P", "_", "E", "n", "d", "P", "_", "v", "1", "0", ".", "j", "p", "g">>,
      <<"S", "0", "2", "_", "3", "P", "_", "E", "n", "d", "P", "_", "v", "1", ".", "j", "p", "g">>,
      <<"S", "0", "1", "_", "1", "P", "_", "E", "n", "d", "P", "_", "v", "1", ".", "j", "p", "g">>,
      <<"S", "1", "_", "3", "P", "_", "E", "n", "d", "P", "_", "v", "1", ".", "j", "p", "g">>,
      <<"S", "0", "1", "_", "3", "P", "_", "E", "n", "d", "P", "_", "v", "1", ".", "p", "n", "g">> }

\* find_3p_images(img_dir) for a directory that holds the names in dir:
\* the paths of the matching .jpg files, sorted
find_3p_images(dir) ==
    LET images == { InImgDir(n) : n \in { m \in dir :
                       GlobJpg(m) /\ MatchesInputPattern(m) } }
    IN Sorted(images)

----------------------------------------------------------------------------
(* Initial states: the entry point and its inputs. *)

\* VARIANTS_PER_PROMPT is a module constant of each sheet script: 1 in
\* generate_ref_img, 3 in generate_start_img, whose loop is also explored
\* with the smaller values.
VariantCounts(e) ==
    CASE e = "generate_start_img" -> 1..VARIANTS_START
      [] e = "generate_ref_img"   -> {VARIANTS_REF}
      [] e \in {"adapt_image", "generate_neutral_inpainting"} -> 0..MaxVariants
      [] OTHER -> {0}

\* the local files an entry point refers to
Files(e) ==
    CASE e \in SheetScripts -> {"excel"}
      [] e = "generate_pov_img" -> {"img_dir"}
      [] e \in {"adapt_image", "transform_image_perspective", "create_mask"} ->
            {"image"}
      [] e = "generate_neutral_inpainting" -> {"image", "mask"}
      [] e \in {"generate_video", "generate_video_main"} -> {"start", "end"}
      [] e = "find_3p_images" -> DirNames
      [] OTHER -> {}

Tables(e, v) ==
    CASE e = "generate_start_img" ->
            UNION { PromptTables(n) : n \in {m \in 0..5 : m * v <= MaxImages} }
      [] e \in {"generate_ref_img", "generate_pov_img"} ->
            UNION { PromptTables(n) : n \in {0, 4, 5} }
      [] OTHER -> { <<>> }

----------------------------------------------------------------------------
(* The mask tool (create_mask.py): paths, geometry, the MaskCreator object. *)

\* the largest index of s that holds c, 0 when none does
LastIndexOf(s, c) ==
    LET I == {i \in 1..Len(s) : s[i] = c}
    IN IF I = {} THEN 0 ELSE CHOOSE i \in I : \A j \in I : j <= i

\* Path(p).name, Path(p).parent (<<>> stands for "."), Path(p).stem
PathName(p) == SubSeq(p, LastIndexOf(p, "/") + 1, Len(p))
PathParent(p) == SubSeq(p, 1, LastIndexOf(p, "/") - 1)
PathStem(p) ==
    LET n == PathName(p)
        d == LastIndexOf(n, ".")
    IN IF d <= 1 THEN n ELSE SubSeq(n, 1, d - 1)

\* parent / name
PathJoin(dir, name) == IF dir = <<>> THEN name ELSE dir \o <<"/">> \o name

\* self.image_path.parent / f"{self.image_path.stem}_mask.png"
output_path(image_path) ==
    PathJoin(PathParent(image_path),
             PathStem(image_path) \o <<"_", "m", "a", "s", "k", ".", "p", "n", "g">>)

\* int(a / b) for b > 0: the quotient truncated towards zero
TruncDiv(a, b) == IF a >= 0 THEN a \div b ELSE -((-a) \div b)

\* What the tool is started on: the image (path and size) and the screen.
\* The first is shown as it is, the second is scaled down to the screen.
MaskSetups ==
    { [ path   |-> <<"i", "m", "g", "/", "a", ".", "j", "p", "g">>,
        size   |-> <<3, 2>>,
        screen |-> <<10, 10>> ],
      [ path   |-> <<"b", ".", "v", "2", ".", "p", "n", "g">>,
        size   |-> <<3, 2>>,
        screen |-> <<3, 3>> ] }

\* the image is larger than 0.9 of the screen in width or in height
TooLarge(w, h, sw, sh) == 10 * w > 9 * sw \/ 10 * h > 9 * sh

\* scale, as the fraction <<numerator, denominator>>:
\* min(screen_width * 0.9 / width, screen_height * 0.9 / height), or 1.0
Scale(w, h, sw, sh) ==
    IF ~TooLarge(w, h, sw, sh) THEN <<1, 1>>
    ELSE IF sw * h <= sh * w THEN <<9 * sw, 10 * w>>
    ELSE <<9 * sh, 10 * h>>

\* int(self.width * scale), int(self.height * scale)
DisplaySize(w, h, sw, sh) ==
    LET sc == Scale(w, h, sw, sh)
    IN <<TruncDiv(w * sc[1], sc[2]), TruncDiv(h * sc[1], sc[2])>>

\* the pixels of an image of w x h
Pixels(w, h) == (0..(w - 1)) \X (0..(h - 1))

\* the size Image.new("L", (self.width, self.height), 0) is given
MaskSize(w, h, dw, dh) == <<w, h>>

\* Image.new("L", size, 0)
NewImage(size) == [p \in Pixels(size[1], size[2]) |-> 0]

\* no MaskCreator yet
NoTool == [ width |-> 0, height |-> 0, scale |-> <<1, 1>>,
            display_width |-> 0, display_height |-> 0,
            mask_size |-> <<0, 0>>, mask_image |-> NewImage(<<0, 0>>),
            brush_size |-> 0, last |-> <<>>,
            output_path |-> <<>>, button |-> "" ]

\* MaskCreator.__init__ on a loaded image; last is (last_x, last_y), <<>>
\* when they are None; button is the mouse button held over the canvas
MaskCreator(setup) ==
    LET w  == setup.size[1]
        h  == setup.size[2]
        sw == setup.screen[1]
        sh == setup.screen[2]
        d  == DisplaySize(w, h, sw, sh)
    IN [ width |-> w, height |-> h, scale |-> Scale(w, h, sw, sh),
         display_width |-> d[1], display_height |-> d[2],
         mask_size |-> MaskSize(w, h, d[1], d[2]),
         mask_image |-> NewImage(MaskSize(w, h, d[1], d[2])),
         brush_size |-> 30, last |-> <<>>,
         output_path |-> output_path(setup.path), button |-> "" ]

\* get_coords: (int(event.x / self.scale), int(event.y / self.scale))
get_coords(t, ex, ey) ==
    <<TruncDiv(ex * t.scale[2], t.scale[1]),
      TruncDiv(ey * t.scale[2], t.scale[1])>>

\* `if self.last_x and self.last_y`: neither is None and neither is 0
Truthy(last) == last # <<>> /\ last[1] # 0 /\ last[2] # 0

\* The pixels ImageDraw.line([a, b], width=wd) fills: the band of width wd
\* around the segment from a to b, without caps (nothing when a = b).
Band(a, b, wd) ==
    LET len2 == (b[1] - a[1]) * (b[1] - a[1]) + (b[2] - a[2]) * (b[2] - a[2])
    IN { p \in (-1..(MaxCoord + 2)) \X (-1..(MaxCoord + 2)) :
           LET along == (p[1] - a[1]) * (b[1] - a[1])
                          + (p[2] - a[2]) * (b[2] - a[2])
               dist2 == (p[1] - a[1]) * (p[1] - a[1])
                          + (p[2] - a[2]) * (p[2] - a[2])
           IN /\ len2 > 0
              /\ 0 <= along /\ along <= len2
              /\ 4 * (dist2 * len2 - along * along) <= wd * wd * len2 }

\* The pixels ImageDraw.ellipse([x - r, y - r, x + r, y + r]) fills: the
\* disc of radius r around c.
Disc(c, r) ==
    { p \in (-1..(MaxCoord + 2)) \X (-1..(MaxCoord + 2)) :
        (p[1] - c[1]) * (p[1] - c[1]) + (p[2] - c[2]) * (p[2] - c[2])
          <= r * r }

\* drawing with fill on an image: pixels outside the image are clipped
Draw(img, shape, fill) ==
    [p \in DOMAIN img |-> IF p \in shape THEN fill ELSE img[p]]

\* faulty variant: the stroke is drawn in grey
Stroke_Grey(t, ex, ey, fill) ==
    LET c == get_coords(t, ex, ey)
    IN [t EXCEPT !.mask_image =
                    IF Truthy(t.last)
                    THEN Draw(t.mask_image, Disc(c, t.brush_size \div 2), 128)
                    ELSE t.mask_image,
                 !.last = c]

\* the body of paint (fill 255) and of erase (fill 0)
Stroke(t, ex, ey, fill) ==
    LET c == get_coords(t, ex, ey)
    IN [t EXCEPT !.mask_image =
                    IF Truthy(t.last)
                    THEN Draw(t.mask_image,
                              Band(t.last, c, t.brush_size)
                                \cup Disc(c, t.brush_size \div 2),
                              fill)
                    ELSE t.mask_image,
                 !.last = c]

\* faulty variant: the brush may shrink to nothing
Shrunk_NoFloor(size) == size - 5

\* max(5, self.brush_size - 5)
Shrunk(size) == IF size - 5 >= 5 THEN size - 5 ELSE 5

\* wheel deltas
Deltas == {-120, 120}

Configs(e) ==
    CASE e = "generate_pain_stimulus" -> GenConfigs
      [] e = "transform_image_perspective" -> I2IConfigs
      [] OTHER -> { GenConfig(DEFAULT_SEED) }

Init ==
    /\ entry \in Entries
    \* create_mask.py and find_3p_images do not read FAL_KEY
    /\ falKey \in (IF entry \in {"create_mask", "find_3p_images"}
                   THEN {FALSE} ELSE BOOLEAN)
    /\ present \in SUBSET Files(entry)
    /\ variants \in VariantCounts(entry)
    /\ items \in Tables(entry, variants)
    /\ config \in Configs(entry)
    /\ pc = "start"
    /\ item = 1
    /\ variant = 0
    /\ imagen_actual = 0
    /\ resultados = <<>>
    /\ errores = <<>>
    /\ success_count = 0
    /\ stdout = <<>>
    /\ netLog = <<>>
    /\ uploading = ""
    /\ urls = NoUrls
    \* the mask is written next to the image
    /\ parentExists \in (IF entry = "create_mask" THEN {TRUE} ELSE BOOLEAN)
    /\ tool = NoTool
    /\ disk \in (IF entry \in DownloadEntries /\ parentExists
                 THEN { {}, {<<DownloadDest, "old">>} }
                 ELSE { {} })
    /\ calls = 0
    /\ result = <<>>
    /\ confirmacion = Unanswered
    /\ outcome = "running"
    /\ error = ""

----------------------------------------------------------------------------
(* Control flow shared by the actions. *)

\* the run ends: sys.exit(n), return from the entry point, or an exception
\* nothing catches
Finish(o, e) ==
    /\ pc' = "done"
    /\ outcome' = o
    /\ error' = e

\* faulty variant: the inner loop stops after the first variant
NextIter_OneVariant ==
    IF entry \in SheetScripts
    THEN item' = item + 1 /\ variant' = 0
    ELSE item' = item /\ variant' = variants

\* faulty variant: the loop stays on the same variant (a retry)
NextIter_Retries == item' = item /\ variant' = variant

\* the loop variables after one more iteration of the (nested) for loop
NextIter ==
    IF entry \in SheetScripts /\ variant + 1 >= variants
    THEN item' = item + 1 /\ variant' = 0
    ELSE item' = item /\ variant' = variant + 1

\* faulty variant: the outer loop of a sheet script leaves out the last row
LoopDone_SkipsLastRow ==
    IF entry \in SheetScripts THEN item >= Len(items) ELSE variant >= variants

\* the for loops are exhausted
LoopDone ==
    IF entry \in SheetScripts THEN item > Len(items) ELSE variant >= variants

\* faulty variant: the handler prints the error and forgets to record it
Caught_NoRecord(e) ==
    /\ NextIter
    /\ pc' = "loop"
    /\ result' = <<>>
    /\ UNCHANGED <<resultados, errores, success_count, stdout, outcome, error>>

\* faulty variant: the handler lets the exception end the run
Caught_Abort(e) ==
    /\ Finish("raised", e)
    /\ result' = <<>>
    /\ UNCHANGED <<item, variant, resultados, errores, success_count, stdout>>

\* except Exception as error: of a loop body (record it, or only print it)
Caught(e) ==
    /\ errores' = IF entry \in SheetScripts
                  THEN Append(errores,
                         [img_id |-> VariantId(items[item].id, variant),
                          error |-> e])
                  ELSE errores
    /\ stdout' = IF entry \in SheetScripts THEN stdout
                 ELSE Append(stdout, Line("error", e, {}))
    /\ NextIter
    /\ pc' = "loop"
    /\ result' = <<>>
    /\ UNCHANGED <<resultados, success_count, outcome, error>>

\* the loop body of generate_neutral_inpainting finds no url in the response
\* r: it prints the keys and "No se encontro URL en la respuesta", and ends
\* without an exception and without a success
Skipped(r) ==
    /\ stdout' = stdout \o << Line("unknown_structure", "", Keys(r)),
                              Line("no_url", "", {}) >>
    /\ NextIter
    /\ pc' = "loop"
    /\ result' = <<>>
    /\ UNCHANGED <<resultados, errores, success_count, outcome, error>>

\* the exception propagates out of the entry point
Uncaught(o, e) ==
    /\ Finish(o, e)
    /\ result' = <<>>
    /\ UNCHANGED <<item, variant, resultados, errores, success_count, stdout>>

\* faulty variant: main() of generate_video.py swallows the exception
Throw_VideoSwallows(e) ==
    CASE entry \in SheetScripts \cup {"adapt_image"} -> Caught(e)
      [] entry = "generate_neutral_inpainting" ->
            IF pc = "await_upload" THEN Uncaught("raised", e) ELSE Caught(e)
      [] entry = "generate_video_main" -> Uncaught("returned", "")
      [] OTHER -> Uncaught("raised", e)

\* An exception with message e is raised at the current position: the
\* innermost enclosing handler of the entry point takes it.
Throw(e) ==
    CASE entry \in SheetScripts \cup {"adapt_image"} -> Caught(e)
      [] entry = "generate_neutral_inpainting" ->
            IF pc = "await_upload" THEN Uncaught("raised", e) ELSE Caught(e)
      [] entry = "generate_video_main" -> Uncaught("exit1", e)
      [] OTHER -> Uncaught("raised", e)

\* control stays inside the entry point, now at position p
Goto(p) ==
    /\ pc' = p
    /\ UNCHANGED <<item, variant, resultados, errores, success_count, stdout,
                   outcome, error>>

\* the eager checks of generate_pain_stimulus; "" when they pass
GenerateGuard == IF ~falKey THEN MissingKeyMsg ELSE ""

\* the eager checks of transform_image_perspective; "" when they pass
TransformGuard == IF ~falKey THEN MissingKeyMsg
                  ELSE IF "image" \notin present THEN NotFoundMsg
                  ELSE ""

\* upload_image of generate_video.py; "" when the file exists
UploadImageGuard(file) == IF file \notin present THEN NotFoundMsg ELSE ""

\* generate_pain_stimulus(prompt, cfg) up to its blocking subscribe()
BeginGenerate(cfg) ==
    /\ config' = cfg
    /\ UNCHANGED <<uploading, urls>>
    /\ IF GenerateGuard # ""
       THEN Throw(GenerateGuard) /\ UNCHANGED netLog
       ELSE /\ netLog' = Append(netLog, SubmitCall(cfg.seed, "", "", ""))
            /\ Goto("await_submit")
            /\ result' = <<>>

\* transform_image_perspective(image_path, prompt, cfg) up to its upload
BeginTransform(cfg) ==
    /\ config' = cfg
    /\ UNCHANGED urls
    /\ IF TransformGuard # ""
       THEN Throw(TransformGuard) /\ UNCHANGED <<netLog, uploading>>
       ELSE /\ netLog' = Append(netLog, UploadCall("image"))
            /\ uploading' = "image"
            /\ Goto("await_upload")
            /\ result' = <<>>

\* upload_image(file) of generate_video.py up to its blocking upload
BeginUploadImage(file, log) ==
    IF UploadImageGuard(file) # ""
    THEN Throw(UploadImageGuard(file)) /\ netLog' = log /\ UNCHANGED uploading
    ELSE /\ netLog' = Append(log, UploadCall(file))
         /\ uploading' = file
         /\ Goto("await_upload")
         /\ result' = <<>>

----------------------------------------------------------------------------
(* Library functions called directly. *)

\* generate_pain_stimulus(prompt, config)
CallGenerate ==
    /\ entry = "generate_pain_stimulus" /\ pc = "start"
    /\ BeginGenerate(config)
    /\ UNCHANGED <<inputVars, fsVars, imagen_actual, confirmacion>>

\* transform_image_perspective(image_path, prompt, config)
CallTransform ==
    /\ entry = "transform_image_perspective" /\ pc = "start"
    /\ BeginTransform(config)
    /\ UNCHANGED <<inputVars, fsVars, imagen_actual, confirmacion>>

\* get_account_usage(limit) up to its blocking requests.get
CallUsage ==
    /\ entry = "get_account_usage" /\ pc = "start"
    /\ IF ~falKey
       THEN Throw(MissingKeyMsg) /\ UNCHANGED netLog
       ELSE /\ netLog' = Append(netLog, GetCall("usage", <<>>))
            /\ Goto("await_get")
            /\ result' = <<>>
    /\ UNCHANGED <<inputVars, fsVars, config, imagen_actual, uploading, urls,
                   confirmacion>>

\* generate_video(start_image_path, end_image_path, prompt, output_path)
CallGenerateVideo ==
    /\ entry = "generate_video" /\ pc = "start"
    /\ BeginUploadImage("start", netLog)
    /\ UNCHANGED <<inputVars, fsVars, config, imagen_actual, urls, confirmacion>>

\* download_image(url, output_path) / download_video(url, output_path) up to
\* the blocking requests.get; a caller may call again once the call is over
CallDownload ==
    /\ entry \in DownloadEntries /\ pc \in {"start", "done"}
    /\ calls < MaxCalls
    /\ calls' = calls + 1
    /\ result' = <<>>
    /\ IF entry = "download_image" /\ MkdirParents(parentExists) # ""
       THEN /\ Finish("raised", MkdirParents(parentExists))
            /\ UNCHANGED <<netLog, parentExists>>
       ELSE /\ parentExists' = (parentExists \/ entry = "download_image")
            /\ netLog' = Append(netLog, GetCall("u_media", DownloadDest))
            /\ pc' = "await_get"
            /\ outcome' = "running"
            /\ error' = ""
    /\ UNCHANGED <<inputVars, disk, config, item, variant, imagen_actual,
                   resultados, errores, success_count, stdout, uploading,
                   urls, confirmacion>>

----------------------------------------------------------------------------
(* The scripts' main() up to input(), or up to their first network call. *)

\* main() of generate_video.py: check_fal_key(), then generate_video(...)
MainVideo ==
    /\ entry = "generate_video_main" /\ pc = "start"
    /\ IF ~falKey
       THEN Uncaught("exit1", MissingKeyMsg) /\ UNCHANGED <<netLog, uploading>>
       ELSE BeginUploadImage("start", netLog)
    /\ UNCHANGED <<inputVars, fsVars, config, imagen_actual, urls, confirmacion>>

\* main() of generate_poc.py
MainPoc ==
    /\ entry = "generate_poc" /\ pc = "start"
    /\ IF ~falKey THEN Uncaught("exit1", MissingKeyMsg)
       ELSE Goto("prompt") /\ result' = <<>>
    /\ UNCHANGED <<inputVars, fsVars, config, imagen_actual, netLog, uploading, urls,
                   confirmacion>>

\* main() of generate_start_img.py / generate_ref_img.py
MainSheet ==
    /\ entry \in SheetScripts /\ pc = "start"
    /\ IF ~falKey THEN Uncaught("exit1", MissingKeyMsg)
       ELSE IF "excel" \notin present THEN Uncaught("exit1", ExcelMsg)
       ELSE IF entry = "generate_start_img"
       THEN IF Len(items) = 0 THEN Uncaught("exit0", "")
            ELSE Goto("prompt") /\ result' = <<>>
       ELSE IF Len(items) # EXPECTED_NUM_PROMPTS
            THEN Uncaught("raised", AssertMsg)
            ELSE IF \E i \in 1..Len(items) : items[i].seed.nan
            THEN Uncaught("raised", NaNMsg)
            ELSE Goto("prompt") /\ result' = <<>>
    /\ UNCHANGED <<inputVars, fsVars, config, imagen_actual, netLog, uploading, urls,
                   confirmacion>>

\* main() of generate_pov_img.py: ImageToImageConfig(strength=0.85) raises
\* TypeError before input() is reached
MainPov ==
    /\ entry = "generate_pov_img" /\ pc = "start"
    /\ IF ~falKey THEN Uncaught("exit1", MissingKeyMsg)
       ELSE IF "img_dir" \notin present THEN Uncaught("exit1", DirMsg)
       ELSE IF Len(items) # EXPECTED_NUM_IMAGES
       THEN Uncaught("raised", AssertMsg)
       ELSE Uncaught("raised", TypeErrorMsg)
    /\ UNCHANGED <<inputVars, fsVars, config, imagen_actual, netLog, uploading, urls,
                   confirmacion>>

\* main() of adapt_image.py
MainAdapt ==
    /\ entry = "adapt_image" /\ pc = "start"
    /\ IF ~falKey THEN Uncaught("exit1", MissingKeyMsg)
       ELSE IF "image" \notin present THEN Uncaught("exit1", NotFoundMsg)
       ELSE Goto("prompt") /\ result' = <<>>
    /\ UNCHANGED <<inputVars, fsVars, config, imagen_actual, netLog, uploading, urls,
                   confirmacion>>

\* main() of generate_neutral_inpainting.py up to upload_file(image_path)
MainInpainting ==
    /\ entry = "generate_neutral_inpainting" /\ pc = "start"
    /\ IF ~falKey
       THEN Uncaught("exit1", MissingKeyMsg) /\ UNCHANGED <<netLog, uploading>>
       ELSE IF "image" \notin present \/ "mask" \notin present
       THEN Uncaught("exit1", NotFoundMsg) /\ UNCHANGED <<netLog, uploading>>
       ELSE /\ netLog' = Append(netLog, UploadCall("image"))
            /\ uploading' = "image"
            /\ Goto("await_upload")
            /\ result' = <<>>
    /\ UNCHANGED <<inputVars, fsVars, config, imagen_actual, urls, confirmacion>>

\* input() returns ans
Confirm(ans) ==
    /\ pc = "prompt"
    /\ confirmacion' = Lower(Strip(ans))
    /\ IF ~Confirmed(ans) THEN Uncaught("exit0", "")
       ELSE IF entry = "generate_poc" THEN Uncaught("raised", AttributeMsg)
       ELSE Goto("loop") /\ result' = <<>>
    /\ parentExists' = (parentExists
                          \/ (Confirmed(ans) /\ entry \in SheetScripts))
    /\ UNCHANGED <<inputVars, calls, disk, config, imagen_actual, netLog,
                   uploading, urls>>

----------------------------------------------------------------------------
(* The batch loops. *)

\* the top of the loop body of a sheet script, up to the blocking subscribe
LoopSheet ==
    /\ entry \in SheetScripts /\ pc = "loop" /\ ~LoopDone
    /\ imagen_actual' = imagen_actual + 1
    /\ BeginGenerate(GenConfig(BaseSeed(items[item]) + variant))
    /\ UNCHANGED <<inputVars, fsVars, confirmacion>>

\* the top of the loop body of adapt_image, up to the blocking upload
LoopAdapt ==
    /\ entry = "adapt_image" /\ pc = "loop" /\ ~LoopDone
    /\ BeginTransform(I2IConfig(ADAPT_BASE_SEED + variant, "0.15"))
    /\ UNCHANGED <<inputVars, fsVars, imagen_actual, confirmacion>>

\* faulty variant: image and mask urls change places
LoopInpainting_SwapsUrls ==
    /\ entry = "generate_neutral_inpainting" /\ pc = "loop" /\ ~LoopDone
    /\ netLog' = Append(netLog, SubmitCall(INPAINT_BASE_SEED + variant,
                                           urls.mask, urls.image, ""))
    /\ Goto("await_submit")
    /\ result' = <<>>
    /\ UNCHANGED <<inputVars, fsVars, config, imagen_actual, uploading, urls,
                   confirmacion>>

\* the top of the loop body of the inpainting script, up to subscribe
LoopInpainting ==
    /\ entry = "generate_neutral_inpainting" /\ pc = "loop" /\ ~LoopDone
    /\ netLog' = Append(netLog, SubmitCall(INPAINT_BASE_SEED + variant,
                                           urls.image, urls.mask, ""))
    /\ Goto("await_submit")
    /\ result' = <<>>
    /\ UNCHANGED <<inputVars, fsVars, config, imagen_actual, uploading, urls,
                   confirmacion>>

\* faulty variant: the summary exits with status 1 when nothing succeeded
Summary_FailsWhenNoneSucceeded ==
    /\ entry \in LoopScripts /\ pc = "loop" /\ LoopDone
    /\ IF Len(resultados) = 0 /\ success_count = 0
       THEN Uncaught("exit1", "") ELSE Uncaught("returned", "")
    /\ UNCHANGED <<inputVars, fsVars, config, imagen_actual, netLog, uploading,
                   urls, confirmacion>>

\* the loops are exhausted: the final summary is printed and main() returns
Summary ==
    /\ entry \in LoopScripts /\ pc = "loop" /\ LoopDone
    /\ Uncaught("returned", "")
    /\ UNCHANGED <<inputVars, fsVars, config, imagen_actual, netLog, uploading, urls,
                   confirmacion>>

----------------------------------------------------------------------------
(* The collaborators answer: a blocking call returns or raises. *)

VideoEntries == {"generate_video", "generate_video_main"}
TransformCallers == {"transform_image_perspective", "adapt_image"}

\* where the current attempt's media is downloaded to
Destination ==
    CASE entry \in SheetScripts -> ImgPath(VariantId(items[item].id, variant))
      [] entry = "adapt_image" -> VariantPath(AdaptBase, variant)
      [] entry = "generate_neutral_inpainting" ->
            VariantPath(InpaintBase, variant)
      [] entry \in DownloadEntries -> DownloadDest
      [] OTHER -> <<"o", "u", "t", "p", "u", "t", ".", "m", "p", "4">>

\* the record a sheet script appends to resultados
SuccessRecord(res, saved_path) ==
    [ img_id      |-> VariantId(items[item].id, variant),
      base_img_id |-> items[item].id,
      variant     |-> variant + 1,
      url         |-> res.image_url,
      local_path  |-> saved_path,
      seed        |-> res.seed ]

\* faulty variant: the transformation is submitted with the default
\* image_prompt_strength instead of the one of the config
UploadReturns_DefaultStrength(u) ==
    /\ pc = "await_upload"
    /\ urls' = [urls EXCEPT ![uploading] = u]
    /\ CASE entry \in TransformCallers ->
              /\ netLog' = Append(AnsweredUpload(netLog, u),
                     SubmitCall(config.seed, u, "", "0.1"))
              /\ uploading' = ""
              /\ Goto("await_submit") /\ result' = <<>>
         [] entry = "generate_neutral_inpainting" /\ uploading = "image" ->
              /\ netLog' = Append(AnsweredUpload(netLog, u),
                                 UploadCall("mask"))
              /\ uploading' = "mask"
              /\ Goto("await_upload") /\ result' = <<>>
         [] entry = "generate_neutral_inpainting" /\ uploading = "mask" ->
              /\ netLog' = AnsweredUpload(netLog, u)
              /\ uploading' = ""
              /\ Goto("prompt") /\ result' = <<>>
         [] entry \in VideoEntries /\ uploading = "start" ->
              BeginUploadImage("end", AnsweredUpload(netLog, u))
         [] entry \in VideoEntries /\ uploading = "end" ->
              /\ netLog' = Append(AnsweredUpload(netLog, u),
                                 SubmitCall(-1, urls.start, u, ""))
              /\ uploading' = ""
              /\ Goto("await_submit") /\ result' = <<>>
    /\ UNCHANGED <<inputVars, fsVars, config, imagen_actual, confirmacion>>

\* fal_client.upload_file returns the url u
UploadReturns(u) ==
    /\ pc = "await_upload"
    /\ urls' = [urls EXCEPT ![uploading] = u]
    /\ CASE entry \in TransformCallers ->
              /\ netLog' = Append(AnsweredUpload(netLog, u),
                     SubmitCall(config.seed, u, "", config.strength))
              /\ uploading' = ""
              /\ Goto("await_submit") /\ result' = <<>>
         [] entry = "generate_neutral_inpainting" /\ uploading = "image" ->
              /\ netLog' = Append(AnsweredUpload(netLog, u),
                                 UploadCall("mask"))
              /\ uploading' = "mask"
              /\ Goto("await_upload") /\ result' = <<>>
         [] entry = "generate_neutral_inpainting" /\ uploading = "mask" ->
              /\ netLog' = AnsweredUpload(netLog, u)
              /\ uploading' = ""
              /\ Goto("prompt") /\ result' = <<>>
         [] entry \in VideoEntries /\ uploading = "start" ->
              BeginUploadImage("end", AnsweredUpload(netLog, u))
         [] entry \in VideoEntries /\ uploading = "end" ->
              /\ netLog' = Append(AnsweredUpload(netLog, u),
                                 SubmitCall(-1, urls.start, u, ""))
              /\ uploading' = ""
              /\ Goto("await_submit") /\ result' = <<>>
    /\ UNCHANGED <<inputVars, fsVars, config, imagen_actual, confirmacion>>

\* fal_client.upload_file raises
UploadRaises ==
    /\ pc = "await_upload"
    /\ netLog' = Answered(netLog, "raised", <<>>)
    /\ Throw(TransportMsg)
    /\ UNCHANGED <<inputVars, fsVars, config, imagen_actual, uploading, urls,
                   confirmacion>>

\* fal_client.subscribe returns the terminal response r
SubmitReturns(r) ==
    /\ pc = "await_submit" /\ entry \notin VideoEntries
    /\ r \in ResponsesOf(entry)
    /\ CASE entry \in {"generate_pain_stimulus", "transform_image_perspective"} ->
              /\ netLog' = Answered(netLog, "returned", r.seed)
              /\ IF ShapeError(r) # "" THEN Throw(ShapeError(r))
                 ELSE /\ Finish("returned", "")
                      /\ result' = <<BuildResult(r, config)>>
                      /\ UNCHANGED <<item, variant, resultados, errores,
                                     success_count, stdout>>
         [] entry \in SheetScripts \cup {"adapt_image"} ->
              IF ShapeError(r) # ""
              THEN /\ Throw(ShapeError(r))
                   /\ netLog' = Answered(netLog, "returned", r.seed)
              ELSE /\ result' = <<BuildResult(r, config)>>
                   /\ netLog' = Append(Answered(netLog, "returned", r.seed),
                          GetCall(BuildResult(r, config).image_url, Destination))
                   /\ Goto("await_get")
         [] entry = "generate_neutral_inpainting" ->
              IF ExtractUrl(r) = ""
              THEN /\ Skipped(r)
                   /\ netLog' = Answered(netLog, "returned", r.seed)
              ELSE /\ result' = <<[BuildResult(r, config)
                                     EXCEPT !.image_url = ExtractUrl(r)]>>
                   /\ netLog' = Append(Answered(netLog, "returned", r.seed),
                                      GetCall(ExtractUrl(r), Destination))
                   /\ stdout' = IF r.images = "one" \/ r.image THEN stdout
                                ELSE Append(stdout,
                                       Line("unknown_structure", "", Keys(r)))
                   /\ pc' = "await_get"
                   /\ UNCHANGED <<item, variant, resultados, errores,
                                  success_count, outcome, error>>
    \* download_image makes the parent directory before its GET
    /\ parentExists' =
          (parentExists
             \/ (entry \in SheetScripts \cup {"adapt_image"}
                   /\ ShapeError(r) = "")
             \/ (entry = "generate_neutral_inpainting" /\ ExtractUrl(r) # ""))
    /\ UNCHANGED <<inputVars, calls, disk, config, imagen_actual, uploading,
                   urls, confirmacion>>

\* fal_client.subscribe / submit / iter_events raises
SubmitRaises ==
    /\ pc = "await_submit"
    /\ netLog' = Answered(netLog, "raised", <<>>)
    /\ Throw(TransportMsg)
    /\ UNCHANGED <<inputVars, fsVars, config, imagen_actual, uploading, urls,
                   confirmacion>>

\* how the event stream of a video job may end
VideoStreams == {"no_completed", "empty", "no_video", "video"}

\* handler.iter_events(...) is exhausted (generate_video)
VideoStreamEnds(d) ==
    /\ pc = "await_submit" /\ entry \in VideoEntries
    /\ netLog' = IF d = "video"
                 THEN Append(Answered(netLog, "returned", <<>>),
                             GetCall("u_video", Destination))
                 ELSE Answered(netLog, "returned", <<>>)
    /\ CASE d = "no_completed" -> Throw(UnboundMsg)
         [] d \in {"empty", "no_video"} -> Throw(NoVideoMsg)
         [] d = "video" ->
              /\ Goto("await_get") /\ result' = <<>>
    /\ UNCHANGED <<inputVars, fsVars, config, imagen_actual, uploading, urls,
                   confirmacion>>

\* requests.get returned 2xx and the body was written (download_image,
\* download_video), or get_account_usage got its answer
GetReturns(b) ==
    /\ pc = "await_get"
    /\ b \in BodiesOf(entry)
    /\ netLog' = AnsweredGet(netLog, b)
    /\ CASE entry \in SheetScripts ->
              /\ resultados' = Append(resultados,
                                      SuccessRecord(result[1], Destination))
              /\ disk' = Write(disk, Destination, b)
              /\ NextIter /\ pc' = "loop" /\ result' = <<>>
              /\ UNCHANGED <<errores, success_count, stdout, outcome, error>>
         [] entry \in {"adapt_image", "generate_neutral_inpainting"} ->
              /\ success_count' = success_count + 1
              /\ stdout' = Append(stdout, Line("saved", "", {}))
              /\ disk' = Write(disk, Destination, b)
              /\ NextIter /\ pc' = "loop" /\ result' = <<>>
              /\ UNCHANGED <<resultados, errores, outcome, error>>
         [] entry \in VideoEntries \cup {"download_video"} ->
              \* download_video: open(output_path, "wb") needs the directory
              IF ~parentExists
              THEN Throw(OpenMsg) /\ disk' = disk
              ELSE Uncaught("returned", "")
                   /\ disk' = Write(disk, Destination, b)
         [] entry = "download_image" ->
              Uncaught("returned", "") /\ disk' = Write(disk, Destination, b)
         [] OTHER -> Uncaught("returned", "") /\ disk' = disk
    /\ UNCHANGED <<inputVars, calls, parentExists, config, imagen_actual,
                   uploading, urls, confirmacion>>

\* download_video got a 2xx answer and opened the file, and the stream of
\* iter_content broke before the body was complete
GetBreaks ==
    /\ pc = "await_get" /\ entry \in VideoEntries \cup {"download_video"}
    /\ parentExists
    /\ netLog' = Answered(netLog, "broken", <<>>)
    /\ disk' = Write(disk, Destination, "partial")
    /\ Throw(TransportMsg)
    /\ UNCHANGED <<inputVars, calls, parentExists, config, imagen_actual,
                   uploading, urls, confirmacion>>

\* faulty variant: a sheet script appends its success record before the
\* download, so a failed download still counts as a success
GetRaises_RecordsSuccess ==
    /\ pc = "await_get"
    /\ netLog' = Answered(netLog, "raised", <<>>)
    /\ IF entry \in SheetScripts
       THEN /\ resultados' = Append(resultados,
                                    SuccessRecord(result[1], Destination))
            /\ NextIter /\ pc' = "loop" /\ result' = <<>>
            /\ UNCHANGED <<errores, success_count, stdout, outcome, error>>
       ELSE Throw(HttpMsg)
    /\ UNCHANGED <<inputVars, fsVars, config, imagen_actual, uploading, urls,
                   confirmacion>>

\* requests.get failed, or raise_for_status() raised on a non-2xx status
GetRaises ==
    /\ pc = "await_get"
    /\ netLog' = Answered(netLog, "raised", <<>>)
    /\ Throw(HttpMsg)
    /\ UNCHANGED <<inputVars, fsVars, config, imagen_actual, uploading, urls,
                   confirmacion>>

----------------------------------------------------------------------------
(* The mask tool: main() and the event handlers. *)

\* what the mask tool never touches
ToolFrame ==
    UNCHANGED <<entry, falKey, present, items, variants, config, item,
                variant, imagen_actual, resultados, errores, success_count,
                stdout, netLog, uploading, urls, calls, parentExists, result,
                confirmacion>>

\* an event at canvas position (ex, ey): on the displayed image, or just
\* beyond its right or lower edge
OnCanvas(ex, ey) == ex <= tool.display_width /\ ey <= tool.display_height

\* main() of create_mask.py: MaskCreator(root, args.image), root.mainloop().
\* When the image cannot be loaded __init__ destroys the window and the
\* main loop ends at once.
MainMask(setup) ==
    /\ entry = "create_mask" /\ pc = "start"
    /\ IF "image" \notin present
       THEN tool' = tool /\ Finish("returned", "")
       ELSE /\ tool' = MaskCreator(setup)
            /\ pc' = "events"
            /\ UNCHANGED <<outcome, error>>
    /\ disk' = disk
    /\ ToolFrame

\* <Button-1>: start_draw
start_draw(ex, ey) ==
    /\ pc = "events" /\ tool.button = "" /\ OnCanvas(ex, ey)
    /\ tool' = [Stroke([tool EXCEPT !.last = get_coords(tool, ex, ey)],
                       ex, ey, 255)
                  EXCEPT !.button = "left"]
    /\ UNCHANGED <<pc, outcome, error, disk>>
    /\ ToolFrame

\* <B1-Motion>: paint
paint(ex, ey) ==
    /\ pc = "events" /\ tool.button = "left" /\ OnCanvas(ex, ey)
    /\ tool' = Stroke(tool, ex, ey, 255)
    /\ UNCHANGED <<pc, outcome, error, disk>>
    /\ ToolFrame

\* <ButtonRelease-1>: reset_last
reset_last ==
    /\ pc = "events" /\ tool.button = "left"
    /\ tool' = [tool EXCEPT !.last = <<>>, !.button = ""]
    /\ UNCHANGED <<pc, outcome, error, disk>>
    /\ ToolFrame

\* <Button-3>: start_erase
start_erase(ex, ey) ==
    /\ pc = "events" /\ tool.button = "" /\ OnCanvas(ex, ey)
    /\ tool' = [Stroke([tool EXCEPT !.last = get_coords(tool, ex, ey)],
                       ex, ey, 0)
                  EXCEPT !.button = "right"]
    /\ UNCHANGED <<pc, outcome, error, disk>>
    /\ ToolFrame

\* <B3-Motion>: erase
erase(ex, ey) ==
    /\ pc = "events" /\ tool.button = "right" /\ OnCanvas(ex, ey)
    /\ tool' = Stroke(tool, ex, ey, 0)
    /\ UNCHANGED <<pc, outcome, error, disk>>
    /\ ToolFrame

\* the right button is released: no handler is bound to it
ReleaseRight ==
    /\ pc = "events" /\ tool.button = "right"
    /\ tool' = [tool EXCEPT !.button = ""]
    /\ UNCHANGED <<pc, outcome, error, disk>>
    /\ ToolFrame

\* <MouseWheel>: change_brush_size
change_brush_size(delta) ==
    /\ pc = "events"
    /\ IF delta > 0
       THEN /\ tool.brush_size + 5 <= MaxBrush
            /\ tool' = [tool EXCEPT !.brush_size = tool.brush_size + 5]
       ELSE tool' = [tool EXCEPT !.brush_size = Shrunk(tool.brush_size)]
    /\ UNCHANGED <<pc, outcome, error, disk>>
    /\ ToolFrame

\* how self.mask_image.save(self.output_path) may end
SaveEnds == {"saved", "raised"}

\* faulty variant: the window is closed also when save() raised
save_mask_ClosesOnError(how) ==
    /\ pc = "events"
    /\ disk' = IF how = "saved"
               THEN Write(disk, tool.output_path, tool.mask_image) ELSE disk
    /\ Finish("returned", "")
    /\ tool' = tool
    /\ ToolFrame

\* <s>: save_mask.  When save() raises (before anything is written), the
\* error is shown and the window stays.
save_mask(how) ==
    /\ pc = "events"
    /\ CASE how = "saved" ->
              /\ disk' = Write(disk, tool.output_path, tool.mask_image)
              /\ Finish("returned", "")
         [] how = "raised" ->
              /\ disk' = disk
              /\ UNCHANGED <<pc, outcome, error>>
    /\ tool' = tool
    /\ ToolFrame

\* <q>, <Escape>: close
close ==
    /\ pc = "events"
    /\ Finish("returned", "")
    /\ UNCHANGED <<disk, tool>>
    /\ ToolFrame

----------------------------------------------------------------------------
(* find_3p_images and generate_1p_filename, called as main() of            *)
(* generate_pov_img.py calls them.                                          *)

\* find_3p_images(IMG_DIR); present holds the names in the directory
CallFind ==
    /\ entry = "find_3p_images" /\ pc = "start"
    /\ IF ~parentExists
       THEN Uncaught("raised", DirMsg)
       ELSE /\ result' = <<[images  |-> find_3p_images(present),
                            outputs |-> <<>>]>>
            /\ IF find_3p_images(present) = <<>>
               THEN Finish("returned", "")
               ELSE pc' = "names" /\ UNCHANGED <<outcome, error>>
            /\ UNCHANGED <<item, variant, resultados, errores, success_count,
                           stdout>>
    /\ UNCHANGED <<inputVars, fsVars, config, imagen_actual, netLog, uploading,
                   urls, confirmacion>>

\* output_path = IMG_DIR / generate_1p_filename(img_path.name), for the
\* next of the images found
CallFilename ==
    /\ entry = "find_3p_images" /\ pc = "names"
    /\ result' = <<[result[1] EXCEPT !.outputs =
                      Append(@, InImgDir(generate_1p_filename(
                                   PathName(result[1].images[item]))))]>>
    /\ item' = item + 1
    /\ IF item = Len(result[1].images)
       THEN Finish("returned", "")
       ELSE UNCHANGED <<pc, outcome, error>>
    /\ UNCHANGED <<variant, resultados, errores, success_count, stdout>>
    /\ UNCHANGED <<inputVars, fsVars, config, imagen_actual, netLog, uploading,
                   urls, confirmacion>>

----------------------------------------------------------------------------
(* Specifications. *)

Next ==
    \/ CallGenerate
    \/ CallTransform
    \/ CallUsage
    \/ CallGenerateVideo
    \/ MainVideo
    \/ MainPoc
    \/ MainSheet
    \/ MainPov
    \/ MainAdapt
    \/ MainInpainting
    \/ \E ans \in Answers : Confirm(ans)
    \/ LoopSheet
    \/ LoopAdapt
    \/ LoopInpainting
    \/ Summary
    \/ \E u \in UploadUrls : UploadReturns(u)
    \/ UploadRaises
    \/ \E r \in Responses : SubmitReturns(r)
    \/ SubmitRaises
    \/ \E d \in VideoStreams : VideoStreamEnds(d)
    \/ CallDownload
    \/ \E b \in Bodies : GetReturns(b)
    \/ GetBreaks
    \/ GetRaises
    \/ \E setup \in MaskSetups : MainMask(setup)
    \/ \E ex \in 0..MaxCoord, ey \in 0..MaxCoord : start_draw(ex, ey)
    \/ \E ex \in 0..MaxCoord, ey \in 0..MaxCoord : paint(ex, ey)
    \/ reset_last
    \/ \E ex \in 0..MaxCoord, ey \in 0..MaxCoord : start_erase(ex, ey)
    \/ \E ex \in 0..MaxCoord, ey \in 0..MaxCoord : erase(ex, ey)
    \/ ReleaseRight
    \/ \E delta \in Deltas : change_brush_size(delta)
    \/ \E how \in SaveEnds : save_mask(how)
    \/ close
    \/ CallFind
    \/ CallFilename

Spec == Init /\ [][Next]_vars

\* The batch scripts on their own: a run of one of the scripts that loop over
\* items and variants, and the steps such a run takes.
BatchInit == Init /\ entry \in LoopScripts

BatchNext ==
    \/ MainSheet
    \/ MainAdapt
    \/ MainInpainting
    \/ \E ans \in Answers : Confirm(ans)
    \/ LoopSheet
    \/ LoopAdapt
    \/ LoopInpainting
    \/ Summary
    \/ \E u \in UploadUrls : UploadReturns(u)
    \/ UploadRaises
    \/ \E r \in Responses : SubmitReturns(r)
    \/ SubmitRaises
    \/ \E b \in Bodies : GetReturns(b)
    \/ GetRaises

\* Every blocking call eventually returns or raises, and the interpreter
\* keeps executing the single thread of control.
FairSpec == BatchInit /\ [][BatchNext]_vars /\ WF_vars(BatchNext)

----------------------------------------------------------------------------
(* Reading the run back from the state: helpers of the properties. *)

Yes == <<"y">>

\* main() returned after its loop printed the final summary
AtSummary == pc = "done" /\ outcome = "returned"

RECURSIVE Indices(_, _, _)
\* the indices k..Len(log) of the calls of kind op, in order
Indices(log, op, k) ==
    IF k > Len(log) THEN <<>>
    ELSE IF log[k].op = op THEN <<k>> \o Indices(log, op, k + 1)
    ELSE Indices(log, op, k + 1)

SubmitIdx == Indices(netLog, "submit", 1)
UploadIdx == Indices(netLog, "upload", 1)
GetIdx    == Indices(netLog, "get", 1)

\* the (1-based) row and the (0-based) variant of the k-th attempt of a
\* sheet script
RowOf(k)     == ((k - 1) \div variants) + 1
VariantOf(k) == (k - 1) % variants

\* In a sheet script the k-th attempt is the k-th submit, and the download of
\* its result, if any, is the call right after it (n is the submit's index).
GetFollows(n) == n < Len(netLog) /\ netLog[n + 1].op = "get"

HasGet(k) == GetFollows(SubmitIdx[k])

\* how the attempt whose submit is the n-th call stands
StatusAt(n) ==
    IF netLog[n].reply = "pending" THEN "in_flight"
    ELSE IF netLog[n].reply = "raised" THEN "failed"
    ELSE IF ~GetFollows(n) THEN "failed"
    ELSE IF netLog[n + 1].reply = "pending" THEN "in_flight"
    ELSE IF netLog[n + 1].reply = "raised" THEN "failed"
    ELSE "succeeded"

\* the status of every attempt, in order
Statuses == LET idx == SubmitIdx IN [k \in 1..Len(idx) |-> StatusAt(idx[k])]

Status(k) == StatusAt(SubmitIdx[k])

RECURSIVE Where(_, _, _)
\* the positions k.. of sts that hold st, in order
Where(sts, st, k) ==
    IF k > Len(sts) THEN <<>>
    ELSE IF sts[k] = st THEN <<k>> \o Where(sts, st, k + 1)
    ELSE Where(sts, st, k + 1)

\* the attempts k.. with status st, in order
WithStatus(st, k) == Where(Statuses, st, k)

\* how often the identifier tag occurs in a list of records
Count(list, tag) == Cardinality({k \in DOMAIN list : list[k].img_id = tag})

\* the (row, variant) pairs whose attempt is over
PairsDone == { p \in (1..Len(items)) \X (0..(variants - 1)) :
                 p[1] < item \/ (p[1] = item /\ p[2] < variant) }

\* id_v(n+1), spelled out
Tagged(id, v) == id \o <<"_", "v">> \o Decimal(v + 1)

----------------------------------------------------------------------------
(* C1 *)

\* C1: in generate_start_img / generate_ref_img, whenever no attempt is in
\* flight len(resultados) + len(errores) = imagen_actual; when the loop has
\* ended the sum is num_prompts * VARIANTS_PER_PROMPT; and every (row,
\* variant) pair whose attempt is over has exactly one record, in one of the
\* two lists (counted per identifier, since rows may repeat an identifier).
C1_Partition ==
    entry \in SheetScripts =>
      /\ pc \in {"start", "prompt", "loop", "done"} =>
            Len(resultados) + Len(errores) = imagen_actual
      /\ pc \in {"await_submit", "await_get"} =>
            Len(resultados) + Len(errores) = imagen_actual - 1
      /\ AtSummary => Len(resultados) + Len(errores) = Len(items) * variants
      /\ \A i \in 1..Len(items), v \in 0..(variants - 1) :
            LET tag == Tagged(items[i].id, v) IN
            Count(resultados, tag) + Count(errores, tag)
              = Cardinality({ p \in PairsDone :
                                Tagged(items[p[1]].id, p[2]) = tag })

\* a run that ended with successes and failures over several rows
C1_Witness ==
    /\ entry \in SheetScripts /\ AtSummary
    /\ Len(items) >= 2 /\ variants >= 2
    /\ Len(resultados) >= 2 /\ Len(errores) >= 2

----------------------------------------------------------------------------
(* C2 *)

\* the tags of the attempts of a sheet script that failed, in order
FailedTags ==
    LET f == WithStatus("failed", 1) IN
    [j \in 1..Len(f) |-> Tagged(items[RowOf(f[j])].id, VariantOf(f[j]))]

\* C2: in a sheet script past the confirmation, no exception of an attempt
\* ends the run (the run is still going or returned normally); every attempt
\* that raised, in generation or in download, has its error recorded under
\* its own variant tag; after a failed attempt the loop goes on (the next
\* attempt is started or about to be), and when the run ends every variant of
\* every row has been attempted.
C2_FailuresDoNotStop ==
    (entry \in SheetScripts /\ confirmacion = Yes) =>
      /\ outcome \in {"running", "returned"}
      /\ error = ""
      /\ LET tags == FailedTags
             sts  == Statuses
         IN
         /\ Len(sts) = imagen_actual
         /\ Len(errores) = Len(tags)
         /\ \A j \in 1..Len(errores) : errores[j].img_id = tags[j]
         /\ \A k \in 1..Len(sts) :
               (sts[k] = "failed" /\ k < Len(items) * variants) =>
                  (Len(sts) > k \/ pc = "loop")
      /\ pc = "done" => imagen_actual = Len(items) * variants

\* a finished run whose first attempt failed in generation, a later one in
\* download, and whose last attempt succeeded
C2_Witness ==
    /\ entry \in SheetScripts /\ AtSummary /\ Len(items) >= 2
    /\ netLog[SubmitIdx[1]].reply = "raised"
    /\ \E j \in 1..Len(errores) : errores[j].error = HttpMsg
    /\ Status(Len(items) * variants) = "succeeded"

----------------------------------------------------------------------------
(* C3 *)

\* the seeds of the submit calls, in the order they were issued
SubmitSeeds ==
    LET idx == SubmitIdx IN [k \in 1..Len(idx) |-> netLog[idx[k]].seed]

\* the number of uploads among the first k calls
UploadsUpTo(k) == Cardinality({j \in 1..k : netLog[j].op = "upload"})

\* C3: a sheet script issues its generation calls with the seeds base_seed,
\* base_seed + 1, ..., base_seed + N - 1 of the first row, then those of the
\* second row, and so on, N per row, and at the summary exactly N per row
\* have been issued.  adapt_image makes one attempt (one upload) per variant
\* and the generation call of the j-th attempt carries seed 3000 + j - 1; the
\* inpainting script's j-th generation call carries seed 4000 + j - 1; both
\* have made exactly args.variants attempts at the summary.
C3_SeedOrder ==
    LET seeds == SubmitSeeds IN
    /\ entry \in SheetScripts =>
         /\ Len(seeds) <= Len(items) * variants
         /\ \A k \in 1..Len(seeds) :
               seeds[k] = (IF items[RowOf(k)].seed.nan
                           THEN NAN_SEED_FALLBACK
                           ELSE items[RowOf(k)].seed.val) + VariantOf(k)
         /\ AtSummary => Len(seeds) = Len(items) * variants
    /\ entry = "adapt_image" =>
         /\ \A k \in 1..Len(netLog) :
               netLog[k].op = "submit" =>
                  netLog[k].seed = ADAPT_BASE_SEED + UploadsUpTo(k) - 1
         /\ AtSummary => Len(UploadIdx) = variants
    /\ entry = "generate_neutral_inpainting" =>
         /\ \A k \in 1..Len(seeds) :
               seeds[k] = INPAINT_BASE_SEED + k - 1
         /\ AtSummary => Len(seeds) = variants

\* two rows of two variants each: all four generation calls were issued
C3_Witness ==
    /\ entry = "generate_start_img" /\ AtSummary
    /\ Len(items) = 2 /\ variants = 2
    /\ SubmitSeeds = <<100, 101, 200, 201>>

----------------------------------------------------------------------------
(* C4 *)

\* the scenario of the specification: S01 (seed 100) and S02 (seed 200), two
\* variants each; every generation call for S01 raised, every call for S02
\* returned, with no seed echoed
Scenario ==
    /\ entry \in SheetScripts /\ AtSummary
    /\ items = << Row(S01, Cell(100)), Row(S02, Cell(200)) >>
    /\ variants = 2
    /\ netLog[SubmitIdx[1]].reply = "raised"
    /\ netLog[SubmitIdx[2]].reply = "raised"
    /\ Status(3) = "succeeded" /\ netLog[SubmitIdx[3]].echo = <<>>
    /\ Status(4) = "succeeded" /\ netLog[SubmitIdx[4]].echo = <<>>

\* C4: in a sheet script the success list holds, in order, one record per
\* attempt whose generation and download both returned, tagged id_v(i+1),
\* with the url that was downloaded, the path it was downloaded to, and the
\* seed of the result (the provider's when it echoed one, else base_seed + i);
\* the failure list holds, in order, one record per attempt that raised,
\* tagged id_v(i+1), with the message of the error that was raised.  In the
\* scenario that is failures S01_v1, S01_v2 and successes S02_v1 (seed 200),
\* S02_v2 (seed 201).
C4_Records ==
    entry \in SheetScripts =>
      LET idx == SubmitIdx
          ok  == WithStatus("succeeded", 1)
          ko  == WithStatus("failed", 1)
      IN
      /\ Len(resultados) = Len(ok)
      /\ \A j \in 1..Len(resultados) :
            LET sub == netLog[idx[ok[j]]]
                get == netLog[idx[ok[j]] + 1]
                row == items[RowOf(ok[j])]
                i   == VariantOf(ok[j])
                rec == resultados[j]
            IN
            /\ rec.img_id = row.id \o <<"_", "v">> \o Decimal(i + 1)
            /\ rec.url = get.url
            /\ rec.local_path = get.dest
            /\ rec.seed = IF sub.echo # <<>> THEN sub.echo[1]
                          ELSE IF row.seed.nan THEN NAN_SEED_FALLBACK + i
                          ELSE row.seed.val + i
      /\ Len(errores) = Len(ko)
      /\ \A j \in 1..Len(errores) :
            LET sub == netLog[idx[ko[j]]]
                row == items[RowOf(ko[j])]
                i   == VariantOf(ko[j])
                rec == errores[j]
            IN
            /\ rec.img_id = row.id \o <<"_", "v">> \o Decimal(i + 1)
            /\ rec.error \in (IF sub.reply = "raised" THEN {TransportMsg}
                              ELSE IF GetFollows(idx[ko[j]]) THEN {HttpMsg}
                              ELSE {KeyErrorMsg, IndexErrorMsg})
      /\ Scenario =>
            /\ errores =
                 << [img_id |-> <<"S", "0", "1", "_", "v", "1">>,
                     error |-> TransportMsg],
                    [img_id |-> <<"S", "0", "1", "_", "v", "2">>,
                     error |-> TransportMsg] >>
            /\ Len(resultados) = 2
            /\ resultados[1].img_id = <<"S", "0", "2", "_", "v", "1">>
            /\ resultados[1].seed = 200
            /\ resultados[2].img_id = <<"S", "0", "2", "_", "v", "2">>
            /\ resultados[2].seed = 201

\* the scenario is reached
C4_Witness == Scenario

----------------------------------------------------------------------------
(* C5 *)

\* C5: with FAL_KEY unset, no entry point issues a network call, and each one
\* that has ended has failed with the missing-credential error.
C5_NoCallWithoutKey ==
    (~falKey /\ entry \notin DownloadEntries) =>
      /\ Len(netLog) = 0
      /\ pc = "done" => /\ outcome \in {"raised", "exit1"}
                        /\ error = MissingKeyMsg

----------------------------------------------------------------------------
(* C6 *)

\* the keys under which a response may carry its result url
UrlKeys == {"images", "image", "url"}

\* C6: a terminal response with none of the keys images, image, url makes the
\* request raise.  generate_pain_stimulus / transform_image_perspective never
\* return a result built from such a response, nor one without a url; and in
\* the inpainting loop the attempt that printed the keys of such a response
\* goes on to its exception handler.
C6_ShapeErrorRaised ==
    /\ (entry \in {"generate_pain_stimulus", "transform_image_perspective"}
          /\ outcome = "returned") =>
           /\ Keys(result[1].raw_response) \cap UrlKeys # {}
           /\ result[1].image_url # ""
    /\ entry = "generate_neutral_inpainting" =>
           \A k \in 1..Len(stdout) :
              (stdout[k].kind = "unknown_structure"
                 /\ stdout[k].keys \cap UrlKeys = {}) =>
                    /\ k < Len(stdout)
                    /\ stdout[k + 1].kind = "error"

----------------------------------------------------------------------------
(* C7 *)

\* the last generation call that was issued
LastSubmit == netLog[SubmitIdx[Len(SubmitIdx)]]

\* C7: a result of generate_pain_stimulus / transform_image_perspective (held
\* by a direct caller after the return, or by a batch script while it
\* downloads) carries the seed the provider echoed when it echoed one, and
\* otherwise the seed of the configuration, which is the seed that was sent
\* in the request.
C7_SeedFallback ==
    (entry \in {"generate_pain_stimulus", "transform_image_perspective",
                "adapt_image"} \cup SheetScripts
       /\ result # <<>>) =>
         /\ LastSubmit.reply = "returned"
         /\ LastSubmit.seed = config.seed
         /\ LastSubmit.echo = result[1].raw_response.seed
         /\ result[1].seed = IF LastSubmit.echo = <<>> THEN LastSubmit.seed
                             ELSE LastSubmit.echo[1]

\* a transformation called with seed 42 returned from a response without a
\* seed, and its result carries 42
C7_Witness ==
    /\ entry = "transform_image_perspective" /\ outcome = "returned"
    /\ config.seed = 42
    /\ result[1].raw_response.seed = <<>>
    /\ result[1].seed = 42

----------------------------------------------------------------------------
(* C8 *)

\* C8: in a script that asks for confirmation no network call has been issued
\* when input() is waiting, and an answer that is not "y" after strip and
\* lower-casing ends the run with status 0 and no network call.
C8_GateBeforeNetwork ==
    entry \in PromptScripts =>
      /\ pc = "prompt" => Len(netLog) = 0
      /\ confirmacion \notin {Unanswered, Yes} =>
            /\ pc = "done" /\ outcome = "exit0"
            /\ Len(netLog) = 0

----------------------------------------------------------------------------
(* C9 *)

\* the operations that upload local files they are given
Uploaders == {"transform_image_perspective", "generate_video",
              "generate_video_main", "generate_neutral_inpainting"}

\* C9: when one of the local files an operation refers to does not exist (and
\* the credential is set), the operation performs no upload, and when it has
\* ended it has failed with the not-found error.
C9_NotFoundBeforeUpload ==
    (entry \in Uploaders /\ falKey /\ ~(Files(entry) \subseteq present)) =>
      /\ UploadIdx = <<>>
      /\ pc = "done" => /\ outcome \in {"raised", "exit1"}
                        /\ error = NotFoundMsg

----------------------------------------------------------------------------
(* C10 *)

\* C10: if every blocking call returns or raises, a batch script that got
\* "y" at its prompt reaches the final summary, and a sheet script does so
\* with one record for every variant of every row, in resultados or errores.
C10_ReachesSummary ==
    (entry \in LoopScripts /\ confirmacion = Yes)
      ~> ( /\ AtSummary
           /\ entry \in SheetScripts =>
                /\ Len(resultados) + Len(errores) = Len(items) * variants
                /\ PairsDone = (1..Len(items)) \X (0..(variants - 1))
                /\ \A i \in 1..Len(items), v \in 0..(variants - 1) :
                      Count(resultados, Tagged(items[i].id, v))
                        + Count(errores, Tagged(items[i].id, v)) >= 1 )

\* generate_ref_img at its summary: five attempts, at least three failed
C10_Witness ==
    /\ entry = "generate_ref_img" /\ AtSummary
    /\ Len(resultados) + Len(errores) = EXPECTED_NUM_PROMPTS
    /\ Len(errores) >= 3

----------------------------------------------------------------------------
(* C11 *)

\* the downloads of media: the k with netLog[k] a GET into a destination
Downloads == {k \in 1..Len(netLog) :
                netLog[k].op = "get" /\ netLog[k].dest # <<>>}

\* the download k is the last one that wrote to its destination
LastWriter(k) ==
    \A j \in Downloads :
       (j > k /\ netLog[j].dest = netLog[k].dest) =>
          netLog[j].reply \notin {"returned", "broken"}

\* C11: a download (download_image, download_video, called directly or by a
\* script) that got a 2xx answer with its full body has made the parent
\* directory of the destination and left exactly that body at the
\* destination, whatever was there before, and the function has not raised
\* (a direct call has returned); and the step in which a download fails
\* with a non-2xx status changes no file.
C11_Download ==
    /\ [](\A k \in Downloads :
            netLog[k].reply = "returned" =>
              /\ parentExists
              /\ LastWriter(k) =>
                    ContentAt(disk, netLog[k].dest) = {netLog[k].body}
              /\ (entry \in DownloadEntries /\ k = Len(netLog)) =>
                    outcome = "returned")
    /\ [][(pc = "await_get" /\ netLog'[Len(netLog)].reply = "raised")
            => disk' = disk]_vars

----------------------------------------------------------------------------
(* C12 *)

\* C12: download_image called twice in a row with the same url and
\* destination: the second call gets as far as its GET whatever the first
\* left behind (existing directory, existing file), each call whose GET is
\* answered 2xx returns without error, and when both are answered with the
\* same body the destination holds that body after the second call, as it
\* did after the first.
C12_DownloadTwice ==
    entry = "download_image" =>
      /\ Len(netLog) = calls
      /\ \A k \in 1..Len(netLog) :
            /\ netLog[k].url = netLog[1].url
            /\ netLog[k].dest = netLog[1].dest
      /\ (Len(netLog) > 0 /\ netLog[Len(netLog)].reply = "returned") =>
            /\ pc = "done" /\ outcome = "returned" /\ error = ""
            /\ ContentAt(disk, DownloadDest) = {netLog[Len(netLog)].body}
      /\ (calls = 2 /\ netLog[1].reply = "returned"
            /\ netLog[2].reply = "returned"
            /\ netLog[1].body = netLog[2].body) =>
               ContentAt(disk, DownloadDest) = {netLog[1].body}

\* both calls returned, with the same body, which is on disk
C12_Witness ==
    /\ entry = "download_image" /\ calls = 2 /\ pc = "done"
    /\ outcome = "returned"
    /\ netLog[1].reply = "returned" /\ netLog[1].body = "b2"
    /\ netLog[2].reply = "returned" /\ netLog[2].body = "b2"
    /\ disk = {<<DownloadDest, "b2">>}

----------------------------------------------------------------------------
(* C13 *)

\* C13: the inpainting script uploads the image file and then the mask file,
\* each once and as the file at the given path, and nothing else; every
\* generation call is issued after both uploads returned and carries the url
\* the image upload returned as image_url and the url the mask upload
\* returned as mask_url, the same for every variant.
C13_UploadsOnce ==
    entry = "generate_neutral_inpainting" =>
      LET ups == UploadIdx
          sub == SubmitIdx
      IN
      /\ Len(ups) <= 2
      /\ Len(ups) >= 1 => netLog[ups[1]].file = "image"
      /\ Len(ups) >= 2 => netLog[ups[2]].file = "mask"
      /\ \A k \in 1..Len(sub) :
            /\ Len(ups) = 2 /\ ups[2] < sub[k]
            /\ netLog[ups[1]].reply = "returned"
            /\ netLog[ups[2]].reply = "returned"
            /\ netLog[sub[k]].image_url = netLog[ups[1]].body
            /\ netLog[sub[k]].mask_url = netLog[ups[2]].body

\* two variants were generated from two uploads that returned different urls
C13_Witness ==
    /\ entry = "generate_neutral_inpainting" /\ AtSummary
    /\ Len(UploadIdx) = 2 /\ Len(SubmitIdx) = 2
    /\ netLog[1].body = "up_a" /\ netLog[2].body = "up_b"
    /\ netLog[SubmitIdx[2]].image_url = "up_a"
    /\ netLog[SubmitIdx[2]].mask_url = "up_b"

----------------------------------------------------------------------------
(* C14 *)

\* the scripts that make a single request
SingleRequestScripts == {"generate_poc", "generate_video_main"}

\* the process ends with a non-zero status: sys.exit(1), or an exception
\* that nothing catches
NonZeroExit == pc = "done" /\ outcome \in {"exit1", "raised"}

----------------------------------------------------------------------------
(* C15 *)

\* the batch scripts of C15
GatedBatchScripts == {"generate_start_img", "generate_ref_img", "adapt_image"}

\* C15: generate_start_img, generate_ref_img and adapt_image, once "y" was
\* answered, end only by returning from main() after the summary (status
\* 0), with no error, whatever the number of attempts that failed.
C15_BatchExitsZero ==
    (entry \in GatedBatchScripts /\ confirmacion = Yes) =>
      /\ outcome \in {"running", "returned"}
      /\ error = ""
      /\ pc = "done" =>
            /\ outcome = "returned"
            /\ LoopDone

\* generate_start_img ended with status 0 after four attempts that all
\* failed
C15_Witness ==
    /\ entry = "generate_start_img" /\ confirmacion = Yes
    /\ pc = "done" /\ outcome = "returned"
    /\ Len(resultados) = 0 /\ Len(errores) = 4

----------------------------------------------------------------------------
(* C16 *)

\* the attempts of a sheet script that the loop has begun: those of the
\* variants before the current one, and the current one when it is under way
Begun == (item - 1) * variants + variant
           + (IF pc \in {"await_submit", "await_get"} THEN 1 ELSE 0)

\* how the statuses of the attempts may change in one step
StatusStep ==
    LET old == Len(netLog)
        new == Len(netLog')
    IN
    /\ old <= new
    /\ \A n \in 1..old :
          /\ netLog'[n].op = netLog[n].op
          /\ (netLog[n].op = "submit" /\ StatusAt(n) \in {"succeeded", "failed"})
                => StatusAt(n)' = StatusAt(n)
    /\ \A n \in (old + 1)..new : netLog'[n].op = "submit" =>
          /\ StatusAt(n)' = "in_flight"
          /\ \A m \in (old + 1)..new : netLog'[m].op = "submit" => m = n
          /\ \A m \in 1..old :
                netLog[m].op = "submit" => StatusAt(m) # "in_flight"

\* C16: in a sheet script every variant the loop has reached has exactly one
\* generation call (the k-th call belongs to the k-th variant in loop
\* order), only the last attempt can be in flight, so at most one is, and
\* in the whole log of any batch script only the last call can be pending;
\* in a step, an attempt that succeeded or failed keeps its status, an
\* attempt in flight stays so or becomes succeeded or failed, and a new
\* attempt starts in flight, one at a time and only when no other is.
C16_VariantStates ==
    /\ [](entry \in LoopScripts =>
            \A k \in 1..Len(netLog) :
               netLog[k].reply = "pending" =>
                  (k = Len(netLog) /\ pc \in {"await_upload", "await_submit",
                                               "await_get"}))
    /\ [](entry \in SheetScripts =>
            LET sts == Statuses IN
            /\ Len(sts) = Begun
            /\ Len(sts) <= Len(items) * variants
            /\ \A k \in 1..Len(sts) :
                  sts[k] = "in_flight" =>
                     (k = Len(sts) /\ pc \in {"await_submit", "await_get"}))
    /\ [][(entry \in SheetScripts) => StatusStep]_vars

\* the first attempt failed, the second succeeded, the third is in flight
C16_Witness ==
    /\ entry \in SheetScripts /\ Len(SubmitIdx) = 3
    /\ Statuses = <<"failed", "succeeded", "in_flight">>

----------------------------------------------------------------------------
(* C17 *)

\* the attempts of a sheet script whose generation call returned a usable
\* response and whose download raised
DownloadFailed ==
    {n \in 1..Len(netLog) :
        /\ netLog[n].op = "submit" /\ netLog[n].reply = "returned"
        /\ GetFollows(n) /\ netLog[n + 1].reply = "raised"}

\* C17: in generate_start_img / generate_ref_img the success list holds one
\* record per attempt whose generation call returned and whose download
\* completed, in order, and the file of each is on disk with the body that
\* was served; an attempt whose generation returned and whose download
\* raised has its record in the failure list, with the message of the
\* download error, and no record in the success list.  generate_pov_img
\* never reaches its loop and records nothing.
C17_SuccessNeedsDownload ==
    /\ entry \in SheetScripts =>
         LET idx == SubmitIdx
             sts == Statuses
             ok  == Where(sts, "succeeded", 1)
             ko  == Where(sts, "failed", 1)
         IN
         /\ Len(resultados) = Len(ok)
         /\ \A j \in 1..Len(ok) :
               LET n == idx[ok[j]] IN
               /\ netLog[n].reply = "returned"
               /\ netLog[n + 1].op = "get" /\ netLog[n + 1].reply = "returned"
               /\ resultados[j].local_path = netLog[n + 1].dest
               /\ ContentAt(disk, resultados[j].local_path)
                     = {netLog[n + 1].body}
         /\ Len(errores) = Len(ko)
         /\ \A j \in 1..Len(ko) :
               idx[ko[j]] \in DownloadFailed =>
                 /\ errores[j].error = HttpMsg
                 /\ errores[j].img_id
                      = Tagged(items[RowOf(ko[j])].id, VariantOf(ko[j]))
         /\ \A n \in DownloadFailed :
               \A j \in 1..Len(ok) : idx[ok[j]] # n
    /\ entry = "generate_pov_img" =>
         /\ resultados = <<>> /\ errores = <<>> /\ netLog = <<>>

\* a finished run in which one download raised after its generation call
\* returned, and another attempt succeeded
C17_Witness ==
    /\ entry \in SheetScripts /\ AtSummary
    /\ DownloadFailed # {}
    /\ Len(resultados) >= 1
    /\ \E j \in 1..Len(errores) : errores[j].error = HttpMsg

----------------------------------------------------------------------------
(* C18 *)

\* C18: a call of transform_image_perspective makes at most one upload and
\* one submit, the upload first; the submit exists only once the upload has
\* returned, and carries the url the upload returned as image_url and
\* config.image_prompt_strength; when the upload raised there is no submit;
\* a call that returned made exactly the two.  A call of
\* generate_pain_stimulus makes no upload and at most one submit, exactly
\* one when it passed its key check.
C18_UploadThenSubmit ==
    /\ entry = "transform_image_perspective" =>
         /\ Len(netLog) <= 2
         /\ Len(netLog) >= 1 =>
               /\ netLog[1].op = "upload" /\ netLog[1].file = "image"
               /\ pc = "done" => netLog[1].reply # "pending"
         /\ Len(netLog) = 2 =>
               /\ netLog[1].reply = "returned"
               /\ netLog[2].op = "submit"
               /\ netLog[2].image_url = netLog[1].body
               /\ netLog[2].strength = config.strength
         /\ (Len(netLog) >= 1 /\ netLog[1].reply = "raised") =>
               (Len(netLog) = 1 /\ pc = "done" /\ outcome = "raised")
         /\ (Len(netLog) >= 1 /\ netLog[1].reply = "returned") =>
               Len(netLog) = 2
         /\ (pc = "done" /\ outcome = "returned") =>
               (Len(netLog) = 2 /\ netLog[2].reply = "returned")
    /\ entry = "generate_pain_stimulus" =>
         /\ Len(netLog) <= 1
         /\ \A k \in 1..Len(netLog) : netLog[k].op = "submit"
         /\ (pc = "done" /\ error # MissingKeyMsg) => Len(netLog) = 1
         /\ (pc # "start" /\ error = MissingKeyMsg) => netLog = <<>>

\* a transformation with a non-default strength returned after its upload
\* returned the second of the urls
C18_Witness ==
    /\ entry = "transform_image_perspective"
    /\ pc = "done" /\ outcome = "returned"
    /\ config.strength = "0.5"
    /\ netLog[1].body = "up_b" /\ netLog[2].image_url = "up_b"

----------------------------------------------------------------------------
(* C19 *)

\* the subscribe() of a library call returns r, a response with
\* images[0].url
ReturnsWithUrl(r) ==
    /\ entry \in {"generate_pain_stimulus", "transform_image_perspective"}
    /\ r.images = "one"
    /\ SubmitReturns(r)

\* the call returns the dict the response r is to be normalised to
Normalised(r) ==
    /\ pc' = "done" /\ outcome' = "returned"
    /\ Len(result') = 1
    /\ result'[1].image_url = "u_images0"
    /\ result'[1].model_id = config.model_id
    /\ r.nsfw = "absent" => result'[1].has_nsfw_concepts = FALSE
    /\ r.timings = <<>> => result'[1].timings = {}
    /\ r.prompt = <<>> => result'[1].prompt = RequestedPrompt
    /\ result'[1].raw_response = r

C19_Step == \A r \in Responses : ReturnsWithUrl(r) => Normalised(r)

\* C19: whenever the subscribe() of generate_pain_stimulus or of
\* transform_image_perspective returns a response that contains
\* images[0].url, the function returns, with image_url = images[0].url,
\* model_id = config.model_id, has_nsfw_concepts false, timings empty and
\* prompt the requested one when the response omits them, and raw_response
\* the response itself.
C19_Normalised == [][C19_Step]_vars

----------------------------------------------------------------------------
(* C20 *)

\* the downloads of the log that completed
CompletedGets ==
    {k \in 1..Len(netLog) :
        netLog[k].op = "get" /\ netLog[k].reply = "returned"}

\* C20: in generate_neutral_inpainting the url of a download is
\* images[0].url when the response has a non-empty images, else image.url
\* when it has image, else its bare url, and there is a download only when
\* one of them is found; every download comes right after the generation
\* call that returned; success_count is the number of downloads that
\* completed, so it never exceeds the number of variants attempted.
C20_ExtractionOrder ==
    entry = "generate_neutral_inpainting" =>
      /\ pc = "await_get" =>
            LET r   == result[1].raw_response
                get == netLog[Len(netLog)]
            IN
            /\ get.op = "get"
            /\ r.images = "one" => get.url = "u_images0"
            /\ (r.images # "one" /\ r.image) => get.url = "u_image"
            /\ (r.images # "one" /\ ~r.image) =>
                  (r.url /\ get.url = "u_bare")
      /\ \A k \in 1..Len(netLog) :
            netLog[k].op = "get" =>
              /\ netLog[k].url \in {"u_images0", "u_image", "u_bare"}
              /\ k > 1 /\ netLog[k - 1].op = "submit"
              /\ netLog[k - 1].reply = "returned"
      /\ success_count = Cardinality(CompletedGets)
      /\ success_count <= Len(SubmitIdx)
      /\ Len(SubmitIdx) <= variants
      /\ Len(SubmitIdx) = variant + (IF pc \in {"await_submit", "await_get"}
                                      THEN 1 ELSE 0)

\* after a first variant that was saved, the response of the second has an
\* empty images, an image and a bare url, and the download is under way
C20_Witness ==
    /\ entry = "generate_neutral_inpainting" /\ pc = "await_get"
    /\ success_count = 1 /\ variant = 1
    /\ result[1].raw_response.images = "empty"
    /\ result[1].raw_response.image /\ result[1].raw_response.url
    /\ netLog[Len(netLog)].url = "u_image"

----------------------------------------------------------------------------
(* C21 *)

\* C21: a run of generate_poc with FAL_KEY set and the confirmation answered
\* "y" has, once it is over, exactly one generation call, made with seed
\* 1001, and, when that call returned, exactly one download, of the url the
\* call returned.
C21_PocGeneratesOnce ==
    (entry = "generate_poc" /\ falKey /\ confirmacion = Yes /\ pc = "done") =>
      LET idx  == SubmitIdx
          gets == GetIdx
      IN
      /\ Len(idx) = 1
      /\ netLog[idx[1]].seed = 1001
      /\ netLog[idx[1]].reply = "returned" =>
            (Len(gets) = 1 /\ netLog[gets[1]].url = "u_images0")

----------------------------------------------------------------------------
(* C22 *)

\* C22: a run of generate_pov_img with FAL_KEY set and exactly 5 images in
\* the image directory gets to its confirmation, and when it is over it was
\* either declined there or it has called transform_image_perspective once
\* for each of the 5 images, in their sorted order, and each image has its
\* record in exactly one of resultados and errores.
C22_PovTransformsEach ==
    (/\ entry = "generate_pov_img" /\ falKey /\ "img_dir" \in present
     /\ Len(items) = EXPECTED_NUM_IMAGES /\ pc = "done") =>
      /\ confirmacion # Unanswered
      /\ confirmacion = Yes =>
            LET ups == UploadIdx IN
            /\ Len(ups) = EXPECTED_NUM_IMAGES
            /\ \A k \in 1..Len(ups) : netLog[ups[k]].file = items[k].id
            /\ Len(resultados) + Len(errores) = EXPECTED_NUM_IMAGES

----------------------------------------------------------------------------
(* C23 *)

\* the event stream of the video job ended and no download followed
StreamEndedWithoutVideo ==
    /\ pc = "done" /\ Len(netLog) >= 1
    /\ netLog[Len(netLog)].op = "submit"
    /\ netLog[Len(netLog)].reply = "returned"

\* C23: in generate_video every download comes right after the job's event
\* stream ended with a Completed event that has a 'video', and is made from
\* that entry's url; when the stream ended without a Completed event, or
\* with completed data that is empty or has no 'video', there is no
\* download, the error is the ValueError "La respuesta de la API no
\* contiene 'video'." and the function raises / main exits with status 1.
C23_VideoOnlyFromCompleted ==
    entry \in VideoEntries =>
      /\ \A k \in 1..Len(netLog) :
            netLog[k].op = "get" =>
              /\ k > 1 /\ netLog[k - 1].op = "submit"
              /\ netLog[k - 1].reply = "returned"
              /\ netLog[k].url = "u_video"
      /\ StreamEndedWithoutVideo =>
            /\ error = NoVideoMsg
            /\ outcome = IF entry = "generate_video_main" THEN "exit1"
                         ELSE "raised"

----------------------------------------------------------------------------
(* C24 *)

\* the window of the mask tool has been built on a loaded image
ToolBuilt == entry = "create_mask" /\ tool # NoTool

\* the step in which MaskCreator is built leaves an all-zero mask
MaskStartsBlack ==
    (entry = "create_mask" /\ pc = "start" /\ pc' = "events") =>
       \A p \in DOMAIN tool'.mask_image : tool'.mask_image[p] = 0

\* C24: the mask of the mask tool starts with every pixel 0; at any time
\* its pixels are exactly those of an image of the original width and
\* height (one of the images the tool was started on, and not the size of
\* the display), and every pixel is 0 or 255.
C24_MaskBinary ==
    /\ [](ToolBuilt =>
            /\ DOMAIN tool.mask_image = Pixels(tool.width, tool.height)
            /\ \E setup \in MaskSetups :
                  <<tool.width, tool.height>> = setup.size
            /\ \A p \in DOMAIN tool.mask_image :
                  tool.mask_image[p] \in {0, 255})
    /\ [][MaskStartsBlack]_vars

\* a scaled-down display, a brush made smaller, and a mask that has been
\* painted and partly erased
C24_Witness ==
    /\ ToolBuilt /\ tool.display_width < tool.width
    /\ tool.brush_size = 5
    /\ tool.button = "right"
    /\ \E p, q \in DOMAIN tool.mask_image :
          tool.mask_image[p] = 255 /\ tool.mask_image[q] = 0

----------------------------------------------------------------------------
(* C25 *)

\* a press at canvas position (ex, ey), which maps to a pixel of the image,
\* leaves that pixel of the mask with the value v
PressLeaves(ex, ey, v) ==
    LET c == get_coords(tool, ex, ey)
    IN c \in Pixels(tool.width, tool.height) => tool'.mask_image[c] = v

PressStep ==
    \A ex \in 0..MaxCoord, ey \in 0..MaxCoord :
       /\ start_draw(ex, ey) => PressLeaves(ex, ey, 255)
       /\ start_erase(ex, ey) => PressLeaves(ex, ey, 0)

\* C25: in the mask tool a left-button press at a canvas position that maps
\* to the image coordinate (x, y) inside the image leaves mask pixel (x, y)
\* at 255, and a right-button press there leaves it at 0, whatever the
\* coordinate, x = 0 and y = 0 included.
C25_PressPaints == [][PressStep]_vars

----------------------------------------------------------------------------
(* C26 *)

\* <image stem>_mask.png next to the image, for the two images
MaskPaths ==
    { <<"i", "m", "g", "/", "a", "_", "m", "a", "s", "k", ".", "p", "n", "g">>,
      <<"b", ".", "v", "2", "_", "m", "a", "s", "k", ".", "p", "n", "g">> }

KeyStep ==
    /\ close => (pc' = "done" /\ disk' = disk)
    /\ save_mask("saved") =>
          /\ pc' = "done"
          /\ disk' = {<<tool.output_path, tool.mask_image>>}
    /\ save_mask("raised") =>
          (pc' = "events" /\ tool'.mask_image = tool.mask_image)

\* C26: in the mask tool Q / Escape closes the window and writes nothing; S
\* writes the current mask to <image stem>_mask.png next to the image and
\* closes the window; when the save raises the window stays open and the
\* mask in memory is unchanged.  So there is a file only after the window
\* was closed by S, it is at that path, and it holds the mask as it was.
C26_SaveAndClose ==
    /\ [](ToolBuilt =>
            /\ tool.output_path \in MaskPaths
            /\ pc = "events" => disk = {}
            /\ disk # {} => disk = {<<tool.output_path, tool.mask_image>>})
    /\ [][KeyStep]_vars

\* the window was closed by S on a mask that is partly painted
C26_Witness ==
    /\ ToolBuilt /\ pc = "done"
    /\ \E f \in disk :
          /\ f[1] = <<"b", ".", "v", "2", "_", "m", "a", "s", "k", ".", "p",
                      "n", "g">>
          /\ \E p, q \in DOMAIN f[2] : f[2][p] = 255 /\ f[2][q] = 0

\* the window was closed by Q / Escape on a painted mask: nothing written
C26_WitnessQuit ==
    /\ ToolBuilt /\ pc = "done" /\ disk = {}
    /\ \E p \in DOMAIN tool.mask_image : tool.mask_image[p] = 255

----------------------------------------------------------------------------
(* C27 *)

WheelStep ==
    /\ change_brush_size(120) => tool'.brush_size = tool.brush_size + 5
    /\ change_brush_size(-120) =>
          /\ tool.brush_size > 5 => tool'.brush_size = tool.brush_size - 5
          /\ tool.brush_size = 5 => tool'.brush_size = 5

\* C27: the brush of the mask tool starts at 30; at any time its size is at
\* least 5 and a multiple of 5; a wheel-up adds exactly 5, a wheel-down
\* takes 5 off, except at 5, where the size stays.
C27_BrushSize ==
    /\ [](ToolBuilt => (tool.brush_size >= 5 /\ tool.brush_size % 5 = 0))
    /\ [][(entry = "create_mask" /\ pc = "start" /\ pc' = "events")
            => tool'.brush_size = 30]_vars
    /\ [][WheelStep]_vars

\* the brush has been shrunk to its floor, and the mask painted with it
C27_Witness ==
    /\ ToolBuilt /\ pc = "events" /\ tool.brush_size = 5
    /\ \E p \in DOMAIN tool.mask_image : tool.mask_image[p] = 255

\* the brush has been grown beyond its initial size
C27_WitnessUp == ToolBuilt /\ tool.brush_size = 35

----------------------------------------------------------------------------
(* C28 *)

\* the elements of a sequence
Range(seq) == {seq[k] : k \in 1..Len(seq)}

\* C28: the images find_3p_images selects are the .jpg names of the
\* directory that match INPUT_PATTERN, in sorted order; the output path
\* built with generate_1p_filename for any of them is none of the selected
\* input paths, and the output paths of distinct inputs are distinct.
C28_PovNames ==
    (entry = "find_3p_images" /\ result # <<>>) =>
      LET ins  == result[1].images
          outs == result[1].outputs
      IN
      /\ Range(ins) = { InImgDir(n) : n \in present \cap
                           { <<"S", "0", "1", "_", "3", "P", "_", "E", "n", "d", "P", "_", "v", "1", ".", "j", "p", "g">>,
                             <<"S", "0", "1", "_", "3", "P", "_", "E", "n", "d", "P", "_", "v", "1", "0", ".", "j", "p", "g">>,
                             <<"S", "0", "2", "_", "3", "P", "_", "E", "n", "d", "P", "_", "v", "1", ".", "j", "p", "g">> } }
      /\ \A j, k \in 1..Len(ins) : j < k => StrLess(ins[j], ins[k])
      /\ Len(outs) <= Len(ins)
      /\ pc = "done" => Len(outs) = Len(ins)
      /\ \A k \in 1..Len(outs) :
            /\ outs[k] \notin Range(ins)
            /\ outs[k] # ins[k]
            /\ \A j \in 1..(k - 1) : outs[j] # outs[k]

\* three images were selected out of a directory that also holds a first
\* person image and a png, and all three output paths were built
C28_Witness ==
    /\ entry = "find_3p_images" /\ pc = "done" /\ present = DirNames
    /\ result # <<>>
    /\ Len(result[1].outputs) = 3
    /\ result[1].outputs[2] = InImgDir(<<"S", "0", "1", "_", "1", "P", "_", "E", "n", "d", "P", "_", "v", "1", "0", ".", "j", "p", "g">>)

----------------------------------------------------------------------------
(* C29 *)

\* the identifiers of the rows are pairwise distinct
DistinctIds ==
    \A i, j \in 1..Len(items) : i # j => items[i].id # items[j].id

\* C29: in adapt_image and generate_neutral_inpainting the downloads of one
\* run go to pairwise distinct paths, each ends in _v<n>.jpg with n in
\* 1..variants, and the file of every completed download still holds the
\* body that was served.  In generate_start_img / generate_ref_img two
\* attempts download to the same path only if they are the same variant of
\* rows with the same identifier; with distinct identifiers the paths of a
\* run are pairwise distinct and every completed download has its own file.
C29_DistinctPaths ==
    /\ entry \in {"adapt_image", "generate_neutral_inpainting"} =>
         LET gets == GetIdx IN
         /\ \A j, k \in 1..Len(gets) :
               j # k => netLog[gets[j]].dest # netLog[gets[k]].dest
         /\ \A k \in 1..Len(gets) :
               /\ \E n \in 1..variants :
                     EndsWith(netLog[gets[k]].dest,
                              <<"_", "v">> \o Decimal(n)
                                \o <<".", "j", "p", "g">>)
               /\ netLog[gets[k]].reply = "returned" =>
                     ContentAt(disk, netLog[gets[k]].dest)
                       = {netLog[gets[k]].body}
    /\ entry \in SheetScripts =>
         LET idx == SubmitIdx
             got == {k \in 1..Len(idx) : GetFollows(idx[k])}
         IN
         /\ \A a, b \in got :
               netLog[idx[a] + 1].dest = netLog[idx[b] + 1].dest =>
                 /\ items[RowOf(a)].id = items[RowOf(b)].id
                 /\ VariantOf(a) = VariantOf(b)
         /\ DistinctIds =>
               /\ \A a, b \in got :
                     a # b => netLog[idx[a] + 1].dest # netLog[idx[b] + 1].dest
               /\ Cardinality(disk)
                    = Cardinality({k \in got :
                                     netLog[idx[k] + 1].reply = "returned"})

\* both variants of an inpainting run were saved, with different bodies
C29_Witness ==
    /\ entry = "generate_neutral_inpainting" /\ AtSummary
    /\ success_count = 2
    /\ {f[2] : f \in disk} = {"b1", "b2"}

\* a sheet whose rows repeat an identifier: a later attempt downloads to the
\* path of an earlier one
C29_WitnessRepeated ==
    /\ entry \in SheetScripts /\ ~DistinctIds
    /\ \E j, k \in 1..Len(netLog) :
          /\ j < k /\ netLog[j].op = "get" /\ netLog[k].op = "get"
          /\ netLog[j].dest = netLog[k].dest

====
